---------------------------- MODULE Spec2Model ----------------------------
(***************************************************************************)
(* Boswell v2 API (src/app.py): the content-addressable commit/branch      *)
(* engine over PostgreSQL.                                                 *)
(*                                                                         *)
(* Every request handler runs on its own connection with autocommit off    *)
(* (get_db), so the statements of one handler form one transaction that    *)
(* db.commit() publishes and close_db() (the teardown) discards.  The      *)
(* store is PostgreSQL at its default isolation level, READ COMMITTED:     *)
(* each statement sees what is committed when it runs plus the pending     *)
(* writes of its own transaction; an UPDATE waits for another              *)
(* transaction's lock on the row; an INSERT waits for another              *)
(* transaction's pending INSERT of the same unique key.                    *)
(*                                                                         *)
(* SHA-256 is modelled as collision free: the digest of a string is the    *)
(* string wrapped in "H(...)", so two digests are equal exactly when the   *)
(* hashed strings are.                                                     *)
(***************************************************************************)
EXTENDS Integers, Sequences, FiniteSets, TLC

VARIABLES
    db,                  \* the committed rows of every table
    tx,                  \* per worker: pending writes of its open transaction
    pc,                  \* per worker: the statement its handler is at
    req,                 \* per worker: the local variables of its handler
    history,             \* the 201 responses sent so far (commits, branches)
    last,                \* the request that ended last, with its response
    encryption_service,  \* app.py global _encryption_service (FALSE: None)
    active_dek,          \* app.py global _active_dek (NoDek: None)
    ENCRYPTION_ENABLED,  \* app.py constant, read from the environment at start
    dek_cache,           \* encryption_service.py global _dek_cache
    clock,               \* time.time(), in seconds
    sessions,            \* http_server.py global sessions: session id -> queue
    streams              \* per SSE connection: the events its generator yielded

vars == <<db, tx, pc, req, history, last, encryption_service, active_dek, ENCRYPTION_ENABLED,
          dek_cache, clock, sessions, streams>>

-----------------------------------------------------------------------------
(* Bounds of the model *)

NumWorkers == 2      \* handlers that may run at the same time
MaxReqs == 3         \* requests served in one behaviour, one after another
MaxConcReqs == 2     \* requests served in one behaviour, when they interleave
MaxLimit == 2        \* largest limit a Log request passes
MaxApiReqs == 2      \* requests served in one behaviour of the whole API
MaxDekCalls == 4     \* calls of the encryption service in one behaviour
MaxClock == 600      \* seconds of time.time() that pass in one behaviour
MaxCryptoCalls == 2  \* calls of the cipher or of the key backup in one behaviour
MaxToolCalls == 3    \* tool calls and link requests in one behaviour
MaxSseReqs == 3      \* posts to /messages and /mcp in one behaviour

Workers == 1..NumWorkers

-----------------------------------------------------------------------------
(* Values *)

GENESIS == "GENESIS"                 \* head_commit of an empty branch
None == "None"                       \* Python None / SQL NULL
DEFAULT_BRANCH == "command-center"   \* default of 'branch' and of 'from'

BranchNames == {DEFAULT_BRANCH, "b1"}
Times == {"T1", "T2"}                \* values of datetime.utcnow().isoformat()
Messages == {"m1"}
Authors == {"claude"}
MemoryTypes == {"memory"}
TagLists == {<<"t1">>}
Nonces == {"n1", "n2"}               \* values of secrets.token_bytes(12)

\* Request bodies' 'content': a dict (isdict) or a string, by its text.
Contents ==
    { [isdict |-> TRUE,  text |-> "x:1"],
      [isdict |-> FALSE, text |-> "{x:1}"],
      [isdict |-> FALSE, text |-> "memo"],
      [isdict |-> FALSE, text |-> ""] }

\* data_encryption_keys: the one active key of the tenant, when there is one.
DekRow == [key_id |-> "k1", wrapped_key |-> "W(dek1)", status |-> "active"]

-----------------------------------------------------------------------------
(* Pure functions of app.py *)

compute_hash(content) == "H(" \o content \o ")"

json_dumps(text) == "{" \o text \o "}"

\* content_str = json.dumps(content) if isinstance(content, dict) else str(content)
content_str(content) ==
    IF content.isdict THEN json_dumps(content.text) ELSE content.text

\* message[:100]
Prefix100(message) ==
    IF Len(message) <= 100 THEN message ELSE SubSeq(message, 1, 100)

tree_hash_of(branch, blob_hash, now) ==
    compute_hash(branch \o ":" \o blob_hash \o ":" \o now)

commit_hash_of(tree_hash, parent_hash, message, now) ==
    compute_hash(tree_hash \o ":" \o parent_hash \o ":" \o message \o ":" \o now)

\* KMS wrap of a plaintext key (kms_client.encrypt), as a term.
kms_encrypt(plaintext_dek) == "W(" \o plaintext_dek \o ")"

\* EncryptionService: KMS unwrap and AES-256-GCM, as terms over their inputs.
\* The KMS unwraps what it wrapped to the key that was wrapped.
kms_decrypt(wrapped_dek) ==
    LET n == Len(wrapped_dek)
    IN IF n >= 3 /\ SubSeq(wrapped_dek, 1, 2) = "W(" /\ SubSeq(wrapped_dek, n, n) = ")"
       THEN SubSeq(wrapped_dek, 3, n - 1)
       ELSE "U(" \o wrapped_dek \o ")"

\* AESGCM(dek).encrypt(nonce, plaintext, None): the ciphertext body and the
\* 16-byte tag, both determined by key, nonce and plaintext.
encrypt(plaintext, dek, nonce) ==
    "X(" \o dek \o "," \o nonce \o "," \o plaintext \o ")"
        \o "T(" \o dek \o "," \o nonce \o "," \o plaintext \o ")"

\* decrypt as it would be with a cipher that does not check the tag.
decrypt_untagged(ciphertext, nonce, dek) ==
    LET body == "X(" \o dek \o "," \o nonce \o ","
        n == Len(ciphertext)
        ends == {k \in Len(body)..n : k + 3 <= n /\ SubSeq(ciphertext, k + 1, k + 3) = ")T("}
    IN IF n >= Len(body) /\ SubSeq(ciphertext, 1, Len(body)) = body /\ ends # {}
       THEN [raised |-> FALSE,
             plaintext |-> SubSeq(ciphertext, Len(body) + 1,
                                  CHOOSE k \in ends : \A j \in ends : k <= j)]
       ELSE [raised |-> TRUE, plaintext |-> None]

\* EncryptionService.decrypt: AES-GCM opens a ciphertext only when it is, byte
\* for byte, what the key and the nonce make of some plaintext; anything else
\* raises InvalidTag.
decrypt(ciphertext, nonce, dek) ==
    LET body == "X(" \o dek \o "," \o nonce \o ","
        n == Len(ciphertext)
        ends == {k \in Len(body)..n :
                    ciphertext = encrypt(SubSeq(ciphertext, Len(body) + 1, k), dek, nonce)}
    IN IF n >= Len(body) /\ SubSeq(ciphertext, 1, Len(body)) = body /\ ends # {}
       THEN [raised |-> FALSE,
             plaintext |-> SubSeq(ciphertext, Len(body) + 1, CHOOSE k \in ends : TRUE)]
       ELSE [raised |-> TRUE, plaintext |-> None]

\* PBKDF2-HMAC-SHA256 of a passphrase under a salt, as a term.
pbkdf2_unsalted(passphrase, salt) == "P(" \o passphrase \o ")"

pbkdf2(passphrase, salt) == "P(" \o passphrase \o "," \o salt \o ")"

\* export_dek_backup for the random salt (16 bytes) and nonce (12 bytes) drawn.
export_dek_backup(wrapped_dek, passphrase, salt, nonce) ==
    salt \o nonce \o encrypt(wrapped_dek, pbkdf2(passphrase, salt), nonce)

\* import_dek_backup: backup_data[:16], [16:28], [28:], then AES-GCM.
import_dek_backup(backup_data, passphrase) ==
    LET salt == SubSeq(backup_data, 1, 16)
        nonce == SubSeq(backup_data, 17, 28)
        encrypted == SubSeq(backup_data, 29, Len(backup_data))
        p == decrypt(encrypted, nonce, pbkdf2(passphrase, salt))
    IN [raised |-> p.raised, wrapped_dek |-> p.plaintext]

DEK_CACHE_TTL == 300

\* cache_valid as it would be if an entry were still answered at the TTL.
cache_valid_inclusive(cache, key_id, now) ==
    /\ key_id \in DOMAIN cache
    /\ now - cache[key_id].cached_at <= DEK_CACHE_TTL

\* unwrap_dek, lines 86-89: the entry of key_id is there and younger than the TTL.
cache_valid(cache, key_id, now) ==
    /\ key_id \in DOMAIN cache
    /\ now - cache[key_id].cached_at < DEK_CACHE_TTL

\* _dek_cache[key_id] = (plaintext_dek, time.time())
cache_put(cache, key_id, dek, now) ==
    [k \in DOMAIN cache \cup {key_id} |->
        IF k = key_id THEN [dek |-> dek, cached_at |-> now] ELSE cache[k]]

\* EncryptionService.unwrap_dek when the KMS answers: the key, the cache
\* after the call, and whether the KMS client was called.
unwrap_dek(cache, key_id, wrapped_dek, now) ==
    IF cache_valid(cache, key_id, now)
    THEN [dek |-> cache[key_id].dek, cache |-> cache, kms_called |-> FALSE]
    ELSE [dek |-> kms_decrypt(wrapped_dek),
          cache |-> cache_put(cache, key_id, kms_decrypt(wrapped_dek), now),
          kms_called |-> TRUE]

\* generate_dek, line 67: the key id is a digest of the key and 8 random bytes.
key_id_of(plaintext_dek, salt) == "K(" \o plaintext_dek \o ":" \o salt \o ")"

\* EncryptionService.generate_dek, lines 58-78, for the random key and salt
\* drawn; kms_ok: the KMS answers.  The cache is written after the KMS call.
generate_dek(cache, plaintext_dek, salt, now, kms_ok) ==
    IF ~kms_ok
    THEN [raised |-> TRUE, key_id |-> None, wrapped_dek |-> None, dek |-> None,
          cache |-> cache, kms_called |-> TRUE]
    ELSE [raised |-> FALSE, key_id |-> key_id_of(plaintext_dek, salt),
          wrapped_dek |-> kms_encrypt(plaintext_dek), dek |-> plaintext_dek,
          cache |-> cache_put(cache, key_id_of(plaintext_dek, salt), plaintext_dek, now),
          kms_called |-> TRUE]

\* unwrap_dek_kms as it would be if an entry past its TTL were answered when
\* the KMS does not.
unwrap_dek_stale(cache, key_id, wrapped_dek, now, kms_ok) ==
    LET u == unwrap_dek(cache, key_id, wrapped_dek, now)
    IN IF u.kms_called /\ ~kms_ok
       THEN IF key_id \in DOMAIN cache
            THEN [raised |-> FALSE, dek |-> cache[key_id].dek, cache |-> cache,
                  kms_called |-> TRUE]
            ELSE [raised |-> TRUE, dek |-> None, cache |-> cache, kms_called |-> TRUE]
       ELSE [raised |-> FALSE, dek |-> u.dek, cache |-> u.cache,
             kms_called |-> u.kms_called]

\* EncryptionService.unwrap_dek, lines 80-100; kms_ok: the KMS answers, if it
\* is called.  kms_client.decrypt raising leaves the method before line 98.
unwrap_dek_kms(cache, key_id, wrapped_dek, now, kms_ok) ==
    LET u == unwrap_dek(cache, key_id, wrapped_dek, now)
    IN IF u.kms_called /\ ~kms_ok
       THEN [raised |-> TRUE, dek |-> None, cache |-> cache, kms_called |-> TRUE]
       ELSE [raised |-> FALSE, dek |-> u.dek, cache |-> u.cache,
             kms_called |-> u.kms_called]


-----------------------------------------------------------------------------
(* The relational store *)

NoRows == <<>>                       \* a table, or a set of pending rows, with no row

EmptyTx ==
    [ blobs |-> NoRows, tree_entries |-> NoRows, commits |-> NoRows,
      branches |-> NoRows, heads |-> NoRows, tags |-> NoRows ]

\* The store with the pending writes t laid over it: INSERTed rows are added,
\* and the UPDATEs of branches.head_commit (t.heads) replace the heads.
Apply(d, t) ==
    LET all == d.branches @@ t.branches IN
    [ d EXCEPT
        !.blobs = d.blobs @@ t.blobs,
        !.tree_entries = d.tree_entries @@ t.tree_entries,
        !.commits = d.commits @@ t.commits,
        !.tags = d.tags @@ t.tags,
        !.branches =
            [ b \in DOMAIN all |->
                IF b \in DOMAIN t.heads
                THEN [all[b] EXCEPT !.head_commit = t.heads[b]]
                ELSE all[b] ] ]

\* What a statement of worker w sees (READ COMMITTED).
Snapshot(w) == Apply(db, tx[w])

\* db.commit(): the pending writes become the committed rows.
db_commit(d, t) == Apply(d, t)

\* close_db as it would be if closing the connection committed the pending
\* writes.
close_db_flush(d, t) == Apply(d, t)

\* close_db (teardown_appcontext) closes the connection: what was not
\* committed is rolled back.
close_db(d, t) == d

\* Another open transaction holds the row lock of branch b (it UPDATEd it).
RowLocked(w, b) == \E o \in Workers \ {w} : b \in DOMAIN tx[o].heads

\* Another open transaction has a pending INSERT of key k into table tbl.
InsertPending(w, tbl, k) == \E o \in Workers \ {w} : k \in DOMAIN tx[o][tbl]

\* Unique constraints of the schema.  blobs and tags are the conflict
\* targets of the handler's ON CONFLICT clauses.
blobs_pkey(snapshot, blob_hash) == blob_hash \in DOMAIN snapshot.blobs
tags_unique(snapshot, blob_hash, tag) == <<blob_hash, tag>> \in DOMAIN snapshot.tags
tree_entries_pkey(snapshot, tree_hash) == tree_hash \in DOMAIN snapshot.tree_entries
commits_pkey(snapshot, commit_hash) == commit_hash \in DOMAIN snapshot.commits
branches_name_key(snapshot, name) == name \in DOMAIN snapshot.branches

-----------------------------------------------------------------------------
(* Requests *)

Idle == [kind |-> "idle"]

Active == {w \in Workers : pc[w] # "idle"}

\* Requests received so far.
Started == last.rid + Cardinality(Active)

NoDek == [key_id |-> None, wrapped_key |-> None]

\* What is kept of a request that was refused or that failed.
Failure(r, st, err, at) ==
    [kind |-> r.kind, rid |-> last.rid + 1, status |-> st, error |-> err, ended_at |-> at]

\* The handler of worker w ends with HTTP status st and error err; teardown
\* closes its connection.  A 201 response is kept in history.
Finish(w, st, err, d) ==
    LET r == [req[w] EXCEPT !.status = st, !.ended_at = pc[w], !.rid = last.rid + 1]
    IN /\ last' = IF st = 201 THEN r ELSE Failure(req[w], st, err, pc[w])
       /\ history' = IF st = 201 THEN history \cup {r} ELSE history
       /\ db' = d
       /\ pc' = [pc EXCEPT ![w] = "idle"]
       /\ req' = [req EXCEPT ![w] = Idle]
       /\ tx' = [tx EXCEPT ![w] = EmptyTx]

\* A request that is answered without opening a connection.
Reject(r, st, err) ==
    /\ last' = Failure(r, st, err, "idle")
    /\ UNCHANGED <<db, tx, pc, req, history>>

Goto(w, next, locals) ==
    /\ pc' = [pc EXCEPT ![w] = next]
    /\ req' = [req EXCEPT ![w] = locals]

\* Worker w starts handling a request with the locals l.  A Commit that is
\* in progress on the same branch is interleaved with it from now on.
Enter(w, next, l) ==
    LET same(o) == /\ o \in Active \ {w}
                   /\ req[o].kind = "commit" /\ l.kind = "commit"
                   /\ req[o].branch = l.branch
    IN /\ pc' = [pc EXCEPT ![w] = next]
       /\ req' = [o \in Workers |->
                    IF o = w THEN [l EXCEPT !.interleaved = \E x \in Workers : same(x)]
                    ELSE IF same(o) THEN [req[o] EXCEPT !.interleaved = TRUE]
                    ELSE req[o]]

-----------------------------------------------------------------------------
(* POST /v2/commit: create_commit *)

\* get_encryption_service(): a failed initialisation leaves the global None.
get_encryption_service(ok) ==
    IF ~encryption_service /\ ENCRYPTION_ENABLED THEN ok ELSE encryption_service

\* get_active_dek(): the tenant's active key, looked up once and kept.
get_active_dek ==
    IF active_dek = NoDek /\ ENCRYPTION_ENABLED
    THEN IF \E k \in DOMAIN db.data_encryption_keys :
                db.data_encryption_keys[k].status = "active"
         THEN LET k == CHOOSE x \in DOMAIN db.data_encryption_keys :
                            db.data_encryption_keys[x].status = "active"
              IN [key_id |-> k, wrapped_key |-> db.data_encryption_keys[k].wrapped_key]
         ELSE NoDek
    ELSE active_dek

\* Line 321: SELECT head_commit FROM branches WHERE name = branch (None: no row).
head_commit_of(snapshot, branch) ==
    IF branch \in DOMAIN snapshot.branches
    THEN snapshot.branches[branch].head_commit ELSE None

\* parent_hash_of without the translation of GENESIS.
parent_hash_raw(head_commit) == head_commit

\* Lines 323-325: the branch's head is the parent; GENESIS is stored as NULL.
parent_hash_of(head_commit) == IF head_commit = GENESIS THEN None ELSE head_commit

\* blob_hash_of as it would be if the body's text were hashed as received.
blob_hash_raw(content) == compute_hash(content.text)

\* Line 287: the blob hash is the digest of the canonical content string.
blob_hash_of(content) == compute_hash(content_str(content))

CommitLocals(branch, content, message, author, type, tags, now) ==
    [ kind |-> "commit", rid |-> 0, interleaved |-> FALSE,
      branch |-> branch, content |-> content, message |-> message,
      author |-> author, type |-> type, tags |-> tags, now |-> now,
      content_str |-> content_str(content),
      blob_hash |-> blob_hash_of(content),
      encrypted |-> FALSE, blob_existed |-> FALSE,
      tree_hash |-> None, branch_row |-> FALSE,
      head0 |-> head_commit_of(db, branch),    \* the head when the request arrives
      parent_hash |-> None, commit_hash |-> None, tag_i |-> 1,
      status |-> 0, ended_at |-> None ]

\* `not content`: None, the empty string and the empty dict are refused.
NoContent(content) == content.text = ""

\* Lines 271-291: the body is read, empty content is refused, the connection
\* is opened, the blob hash is computed and the encryption globals are set.
CommitBegin(w, quota) ==
    /\ pc[w] = "idle"
    /\ Started < quota
    /\ \E branch \in BranchNames, content \in Contents, message \in Messages,
          author \in Authors, type \in MemoryTypes, tags \in TagLists,
          now \in Times :
          LET l == CommitLocals(branch, content, message, author, type, tags, now)
          IN IF NoContent(content)
             THEN /\ Reject(l, 400, "Invalid")
                  /\ UNCHANGED <<encryption_service, active_dek>>
             ELSE /\ Enter(w, "blob", l)
                  /\ \E ok \in IF ~encryption_service /\ ENCRYPTION_ENABLED
                               THEN BOOLEAN ELSE {TRUE} :
                        encryption_service' = get_encryption_service(ok)
                  /\ active_dek' = get_active_dek
                  /\ UNCHANGED <<db, tx, history, last>>
    /\ UNCHANGED <<ENCRYPTION_ENABLED, sessions, streams, dek_cache, clock>>

\* BlobRow as it would be if the fallback branch of line 304 were always taken.
BlobRowFallback(r, dek_info, nonce) ==
    [ content |-> r.content_str, content_encrypted |-> None,
      nonce |-> None, encryption_key_id |-> None,
      content_type |-> r.type, created_at |-> r.now,
      byte_size |-> Len(r.content_str) ]

\* Lines 293-312: the blob row, encrypted when the service and a key are there.
BlobRow(r, dek_info, nonce) ==
    IF ENCRYPTION_ENABLED /\ encryption_service /\ dek_info # NoDek
    THEN [ content |-> r.content_str,
           content_encrypted |->
               encrypt(r.content_str,
                       unwrap_dek(dek_cache, dek_info.key_id, dek_info.wrapped_key, clock).dek,
                       nonce),
           nonce |-> nonce, encryption_key_id |-> dek_info.key_id,
           content_type |-> r.type, created_at |-> r.now,
           byte_size |-> Len(r.content_str) ]
    ELSE [ content |-> r.content_str, content_encrypted |-> None,
           nonce |-> None, encryption_key_id |-> None,
           content_type |-> r.type, created_at |-> r.now,
           byte_size |-> Len(r.content_str) ]

\* insert_blob without the ON CONFLICT clause.
insert_blob_strict(exists) == IF exists THEN "error" ELSE "insert"

\* INSERT INTO blobs ... ON CONFLICT (blob_hash) DO NOTHING
insert_blob(exists) == IF exists THEN "nothing" ELSE "insert"

InsertBlob(w) ==
    /\ pc[w] = "blob"
    /\ ~InsertPending(w, "blobs", req[w].blob_hash)
    /\ LET r == req[w]
           exists == blobs_pkey(Snapshot(w), r.blob_hash)
           enc == ENCRYPTION_ENABLED /\ encryption_service /\ active_dek # NoDek
           l == [r EXCEPT !.encrypted = enc, !.blob_existed = exists]
       IN \E nonce \in IF enc /\ ~exists THEN Nonces ELSE {None} :
            CASE insert_blob(exists) = "insert" ->
                   /\ tx' = [tx EXCEPT ![w].blobs =
                                @ @@ (r.blob_hash :> BlobRow(r, active_dek, nonce))]
                   /\ Goto(w, "tree", l)
                   /\ UNCHANGED <<db, history, last>>
              [] insert_blob(exists) = "nothing" ->
                   /\ Goto(w, "tree", l)
                   /\ UNCHANGED <<db, tx, history, last>>
              [] OTHER -> Finish(w, 500, "IntegrityError", close_db(db, tx[w]))
    /\ dek_cache' =
          IF ENCRYPTION_ENABLED /\ encryption_service /\ active_dek # NoDek
          THEN unwrap_dek(dek_cache, active_dek.key_id, active_dek.wrapped_key, clock).cache
          ELSE dek_cache
    /\ UNCHANGED <<encryption_service, active_dek, ENCRYPTION_ENABLED, sessions, streams, clock>>

\* Lines 314-319.
InsertTree(w) ==
    /\ pc[w] = "tree"
    /\ LET r == req[w]
           h == tree_hash_of(r.branch, r.blob_hash, r.now)
           row == [name |-> Prefix100(r.message), blob_hash |-> r.blob_hash, mode |-> r.type]
       IN /\ ~InsertPending(w, "tree_entries", h)
          /\ IF tree_entries_pkey(Snapshot(w), h)
             THEN Finish(w, 500, "IntegrityError", close_db(db, tx[w]))
             ELSE /\ tx' = [tx EXCEPT ![w].tree_entries = @ @@ (h :> row)]
                  /\ Goto(w, "head", [r EXCEPT !.tree_hash = h])
                  /\ UNCHANGED <<db, history, last>>
    /\ UNCHANGED <<encryption_service, active_dek, ENCRYPTION_ENABLED, sessions, streams, dek_cache, clock>>

ReadHead(w) ==
    /\ pc[w] = "head"
    /\ LET head == head_commit_of(Snapshot(w), req[w].branch) IN
       Goto(w, "commit",
            [req[w] EXCEPT !.branch_row = req[w].branch \in DOMAIN Snapshot(w).branches,
                           !.parent_hash = parent_hash_of(head)])
    /\ UNCHANGED <<db, tx, history, last, encryption_service, active_dek, ENCRYPTION_ENABLED, sessions, streams, dek_cache, clock>>

\* Lines 327-334.
InsertCommit(w) ==
    /\ pc[w] = "commit"
    /\ LET r == req[w]
           h == commit_hash_of(r.tree_hash, r.parent_hash, r.message, r.now)
           row == [ tree_hash |-> r.tree_hash, parent_hash |-> r.parent_hash,
                    author |-> r.author, message |-> r.message, created_at |-> r.now ]
       IN /\ ~InsertPending(w, "commits", h)
          /\ IF commits_pkey(Snapshot(w), h)
             THEN Finish(w, 500, "IntegrityError", close_db(db, tx[w]))
             ELSE /\ tx' = [tx EXCEPT ![w].commits = @ @@ (h :> row)]
                  /\ Goto(w, "update", [r EXCEPT !.commit_hash = h])
                  /\ UNCHANGED <<db, history, last>>
    /\ UNCHANGED <<encryption_service, active_dek, ENCRYPTION_ENABLED, sessions, streams, dek_cache, clock>>

\* update_head as it would be if the UPDATE had no WHERE name = branch.
update_head_all(snapshot, t, branch, commit_hash) ==
    [t EXCEPT !.heads = [b \in DOMAIN snapshot.branches |-> commit_hash]]

\* update_head as it would be if the UPDATE wrote the parent, not the commit.
update_head_stale(snapshot, t, branch, commit_hash) ==
    IF branch \in DOMAIN snapshot.branches
    THEN [t EXCEPT !.heads = (branch :> t.commits[commit_hash].parent_hash) @@ @]
    ELSE t

\* Lines 336-339: UPDATE branches SET head_commit = commit_hash WHERE name = branch.
\* The rows it changes are those the statement sees; none is no error.
update_head(snapshot, t, branch, commit_hash) ==
    IF branch \in DOMAIN snapshot.branches
    THEN [t EXCEPT !.heads = (branch :> commit_hash) @@ @]
    ELSE t

UpdateHead(w) ==
    /\ pc[w] = "update"
    /\ ~RowLocked(w, req[w].branch)
    /\ tx' = [tx EXCEPT ![w] =
                update_head(Snapshot(w), @, req[w].branch, req[w].commit_hash)]
    /\ Goto(w, "tags", req[w])
    /\ UNCHANGED <<db, history, last, encryption_service, active_dek, ENCRYPTION_ENABLED, sessions, streams, dek_cache, clock>>

\* Lines 341-348: one INSERT per tag, ON CONFLICT DO NOTHING.
InsertTag(w) ==
    /\ pc[w] = "tags"
    /\ LET r == req[w] IN
       IF r.tag_i <= Len(r.tags)
       THEN LET key == <<r.blob_hash, r.tags[r.tag_i]>> IN
            /\ ~InsertPending(w, "tags", key)
            /\ tx' = [tx EXCEPT ![w].tags =
                        IF tags_unique(Snapshot(w), key[1], key[2])
                        THEN @ ELSE @ @@ (key :> r.now)]
            /\ Goto(w, "tags", [r EXCEPT !.tag_i = @ + 1])
       ELSE /\ Goto(w, "db_commit", r)
            /\ UNCHANGED tx
    /\ UNCHANGED <<db, history, last, encryption_service, active_dek, ENCRYPTION_ENABLED, sessions, streams, dek_cache, clock>>

\* Lines 350-360: db.commit() and the 201 response.
CommitEnd(w) ==
    /\ pc[w] = "db_commit"
    /\ Finish(w, 201, None, db_commit(db, tx[w]))
    /\ UNCHANGED <<encryption_service, active_dek, ENCRYPTION_ENABLED, sessions, streams, dek_cache, clock>>

\* A statement of a handler raises (the store or the key management backend
\* is unreachable, unwrap_dek or encrypt fails): Flask answers 500 and the
\* teardown closes the connection.
Raise(w) ==
    /\ pc[w] # "idle"
    /\ Finish(w, 500, "Unavailable", close_db(db, tx[w]))
    /\ UNCHANGED <<encryption_service, active_dek, ENCRYPTION_ENABLED, sessions, streams, dek_cache, clock>>

-----------------------------------------------------------------------------
(* POST /v2/branch: create_branch *)

BranchLocals(name, from, now) ==
    [ kind |-> "branch", rid |-> 0, interleaved |-> FALSE,
      name |-> name, from |-> from, now |-> now,
      head_commit |-> None, status |-> 0, ended_at |-> None ]

\* Lines 233-241: a missing name is refused.
BranchBegin(w, quota) ==
    /\ pc[w] = "idle"
    /\ Started < quota
    /\ \E name \in BranchNames \cup {""}, from \in BranchNames, now \in Times :
          LET l == BranchLocals(name, from, now)
          IN IF name = ""
             THEN Reject(l, 400, "Invalid")
             ELSE Enter(w, "exists", l) /\ UNCHANGED <<db, tx, history, last>>
    /\ UNCHANGED <<encryption_service, active_dek, ENCRYPTION_ENABLED, sessions, streams, dek_cache, clock>>

\* branch_exists as it would be if the SELECT found no row.
branch_exists_never(snapshot, name) == FALSE

\* Lines 243-244: SELECT name FROM branches WHERE name = name finds a row.
branch_exists(snapshot, name) == name \in DOMAIN snapshot.branches

\* Lines 243-246: 409 when a branch of that name is there.
BranchExists(w) ==
    /\ pc[w] = "exists"
    /\ IF branch_exists(Snapshot(w), req[w].name)
       THEN Finish(w, 409, "AlreadyExists", close_db(db, tx[w]))
       ELSE Goto(w, "source", req[w]) /\ UNCHANGED <<db, tx, history, last>>
    /\ UNCHANGED <<encryption_service, active_dek, ENCRYPTION_ENABLED, sessions, streams, dek_cache, clock>>

\* source_head as it would be without the GENESIS default.
source_head_none(snapshot, from) ==
    IF from \in DOMAIN snapshot.branches
    THEN snapshot.branches[from].head_commit ELSE None

\* Lines 248-250: the new branch starts at the head of 'from', or at GENESIS.
source_head(snapshot, from) ==
    IF from \in DOMAIN snapshot.branches
    THEN snapshot.branches[from].head_commit ELSE GENESIS

BranchSource(w) ==
    /\ pc[w] = "source"
    /\ Goto(w, "insert", [req[w] EXCEPT !.head_commit = source_head(Snapshot(w), req[w].from)])
    /\ UNCHANGED <<db, tx, history, last, encryption_service, active_dek, ENCRYPTION_ENABLED, sessions, streams, dek_cache, clock>>

\* Lines 252-257.
BranchInsert(w) ==
    /\ pc[w] = "insert"
    /\ LET r == req[w]
           row == [head_commit |-> r.head_commit, created_at |-> r.now]
       IN /\ ~InsertPending(w, "branches", r.name)
          /\ IF branches_name_key(Snapshot(w), r.name)
             THEN Finish(w, 500, "IntegrityError", close_db(db, tx[w]))
             ELSE /\ tx' = [tx EXCEPT ![w].branches = @ @@ (r.name :> row)]
                  /\ Goto(w, "branch_commit", r)
                  /\ UNCHANGED <<db, history, last>>
    /\ UNCHANGED <<encryption_service, active_dek, ENCRYPTION_ENABLED, sessions, streams, dek_cache, clock>>

\* Lines 258-266.
BranchEnd(w) ==
    /\ pc[w] = "branch_commit"
    /\ Finish(w, 201, None, db_commit(db, tx[w]))
    /\ UNCHANGED <<encryption_service, active_dek, ENCRYPTION_ENABLED, sessions, streams, dek_cache, clock>>

-----------------------------------------------------------------------------
(* GET /v2/log: get_log *)

\* missing_commit as it would be if the missing row were read.
missing_commit_raises(found) == [status |-> 500, commits |-> <<>>]

\* Line 387-388: no row for current_hash ends the walk with what was found.
missing_commit(found) == [status |-> 200, commits |-> found]

\* walk as it would be if each row were put in front of those found.
RECURSIVE walk_prepend(_, _, _, _)
walk_prepend(commits, current_hash, limit, found) ==
    IF current_hash \in {None, ""} \/ Len(found) >= limit
    THEN [status |-> 200, commits |-> found]
    ELSE IF current_hash \notin DOMAIN commits
         THEN [status |-> 200, commits |-> found]
         ELSE walk_prepend(commits, commits[current_hash].parent_hash, limit,
                   <<[commit_hash |-> current_hash] @@ commits[current_hash]>> \o found)

\* walk as it would be if current_hash were not moved on to the parent.
RECURSIVE walk_revisit(_, _, _, _)
walk_revisit(commits, current_hash, limit, found) ==
    IF current_hash \in {None, ""} \/ Len(found) >= limit
    THEN [status |-> 200, commits |-> found]
    ELSE IF current_hash \notin DOMAIN commits
         THEN [status |-> 200, commits |-> found]
         ELSE walk_revisit(commits, current_hash, limit,
                   Append(found, [commit_hash |-> current_hash] @@ commits[current_hash]))

\* Lines 381-390: the walk along parent_hash, at most limit rows.
RECURSIVE walk(_, _, _, _)
walk(commits, current_hash, limit, found) ==
    IF current_hash \in {None, ""} \/ Len(found) >= limit
    THEN [status |-> 200, commits |-> found]
    ELSE IF current_hash \notin DOMAIN commits
         THEN missing_commit(found)
         ELSE walk(commits, commits[current_hash].parent_hash, limit,
                   Append(found, [commit_hash |-> current_hash] @@ commits[current_hash]))

\* get_log as it would be if the walk tested len(commits) <= limit.
get_log_one_more(d, branch, limit) ==
    IF branch \notin DOMAIN d.branches
    THEN [status |-> 200, commits |-> <<>>]
    ELSE IF d.branches[branch].head_commit = GENESIS
         THEN [status |-> 200, commits |-> <<>>]
         ELSE walk(d.commits, d.branches[branch].head_commit, limit + 1, <<>>)

\* Lines 368-393: the response of get_log on the rows d.
get_log(d, branch, limit) ==
    IF branch \notin DOMAIN d.branches
    THEN [status |-> 200, commits |-> <<>>]
    ELSE IF d.branches[branch].head_commit = GENESIS
         THEN [status |-> 200, commits |-> <<>>]
         ELSE walk(d.commits, d.branches[branch].head_commit, limit, <<>>)

\* The handler only reads, and every row a committed head leads to is
\* committed and never changes, so its statements see what one statement
\* at the time of the first would see.
Log(w, quota) ==
    /\ pc[w] = "idle"
    /\ Started < quota
    /\ \E branch \in BranchNames, limit \in 0..MaxLimit :
          LET res == get_log(db, branch, limit) IN
          last' = [ kind |-> "log", rid |-> last.rid + 1, branch |-> branch,
                    limit |-> limit, status |-> res.status, commits |-> res.commits,
                    ended_at |-> "idle" ]
    /\ UNCHANGED <<db, tx, pc, req, history, encryption_service, active_dek,
                   ENCRYPTION_ENABLED, sessions, streams, dek_cache, clock>>

-----------------------------------------------------------------------------
(* POST /v2/checkout: checkout_branch *)

\* checkout as it would be if a branch that has no row were taken as empty.
checkout_default(d, branch) ==
    IF branch \in DOMAIN d.branches
    THEN [status |-> 200, error |-> None, head_commit |-> d.branches[branch].head_commit]
    ELSE [status |-> 200, error |-> None, head_commit |-> GENESIS]

\* Lines 207-219: the head of the named branch, 404 when it has no row.
checkout(d, branch) ==
    IF branch \in DOMAIN d.branches
    THEN [status |-> 200, error |-> None, head_commit |-> d.branches[branch].head_commit]
    ELSE [status |-> 404, error |-> "NotFound", head_commit |-> None]

\* Lines 201-219.  The handler reads one row and keeps nothing.
Checkout(w, quota) ==
    /\ pc[w] = "idle"
    /\ Started < quota
    /\ \E branch \in BranchNames \cup {""} :
          LET res == IF branch = ""
                     THEN [status |-> 400, error |-> "Invalid", head_commit |-> None]
                     ELSE checkout(db, branch)
          IN last' = [ kind |-> "checkout", rid |-> last.rid + 1, branch |-> branch,
                       status |-> res.status, error |-> res.error,
                       head_commit |-> res.head_commit, ended_at |-> "idle" ]
    /\ UNCHANGED <<db, tx, pc, req, history, encryption_service, active_dek,
                   ENCRYPTION_ENABLED, sessions, streams, dek_cache, clock>>

-----------------------------------------------------------------------------
(* GET /v2/recall: recall_memory *)

\* Line 465: the content column of the row.
plaintext_content(blob, cache) ==
    [ raised |-> FALSE, error |-> None, content |-> blob.content,
      cache |-> cache, decrypted |-> FALSE ]

\* decrypt_blob_content as it would be if the stored bytes were returned as
\* they are.
decrypt_blob_raw(blob, service, deks, cache, now, kms_ok) ==
    [ raised |-> FALSE, error |-> None,
      content |-> IF blob.content_encrypted # None
                  THEN blob.content_encrypted ELSE blob.content,
      cache |-> cache, decrypted |-> FALSE ]

\* Lines 442-465, decrypt_blob_content: a row that has ciphertext, nonce and
\* key id is decrypted when the service is there and the key id has a row in
\* data_encryption_keys; every other row answers its content column.
\* kms_ok: the KMS answers, if unwrap_dek calls it.
decrypt_blob_content(blob, service, deks, cache, now, kms_ok) ==
    IF /\ blob.content_encrypted # None /\ blob.nonce # None
       /\ blob.encryption_key_id # None
       /\ service
       /\ blob.encryption_key_id \in DOMAIN deks
    THEN LET u == unwrap_dek(cache, blob.encryption_key_id,
                             deks[blob.encryption_key_id].wrapped_key, now)
             p == decrypt(blob.content_encrypted, blob.nonce, u.dek)
         IN IF u.kms_called /\ ~kms_ok
            THEN [ raised |-> TRUE, error |-> "Unavailable", content |-> None,
                   cache |-> cache, decrypted |-> FALSE ]
            ELSE IF p.raised
                 THEN [ raised |-> TRUE, error |-> "AuthenticationFailure",
                        content |-> None, cache |-> u.cache, decrypted |-> FALSE ]
                 ELSE [ raised |-> FALSE, error |-> None, content |-> p.plaintext,
                        cache |-> u.cache, decrypted |-> TRUE ]
    ELSE plaintext_content(blob, cache)

\* Lines 476-478 and 497-505: the blob row the request names, by its hash or
\* through the commit's tree entry; <<>> when the SELECT finds no row.
recall_row(d, blob_hash, commit_hash) ==
    IF blob_hash # None
    THEN IF blob_hash \in DOMAIN d.blobs THEN <<d.blobs[blob_hash]>> ELSE <<>>
    ELSE IF /\ commit_hash \in DOMAIN d.commits
            /\ d.commits[commit_hash].tree_hash \in DOMAIN d.tree_entries
            /\ d.tree_entries[d.commits[commit_hash].tree_hash].blob_hash \in DOMAIN d.blobs
         THEN <<d.blobs[d.tree_entries[d.commits[commit_hash].tree_hash].blob_hash]>>
         ELSE <<>>

\* A row has ciphertext, nonce and key id (line 445).
has_ciphertext(blob) ==
    /\ blob.content_encrypted # None /\ blob.nonce # None
    /\ blob.encryption_key_id # None

\* Lines 471-524.  ok: the encryption service can be initialised, if
\* get_encryption_service tries to; kms_ok: the KMS answers.
Recall(w, quota) ==
    /\ pc[w] = "idle"
    /\ Started < quota
    /\ \E blob_hash \in DOMAIN db.blobs \cup {None, "H(?)"},
          commit_hash \in DOMAIN db.commits \cup {None, "H(?)"},
          ok \in BOOLEAN, kms_ok \in BOOLEAN :
          LET rows == recall_row(db, blob_hash, commit_hash)
              ans(st, err, content, enc, dec) ==
                  [ kind |-> "recall", rid |-> last.rid + 1,
                    blob_hash |-> blob_hash, commit_hash |-> commit_hash,
                    status |-> st, error |-> err, content |-> content,
                    encrypted |-> enc, decrypted |-> dec, ended_at |-> "idle" ]
          IN IF blob_hash = None /\ commit_hash = None
             THEN /\ last' = ans(400, "Invalid", None, FALSE, FALSE)
                  /\ UNCHANGED <<encryption_service, dek_cache>>
             ELSE IF rows = <<>>
             THEN /\ last' = ans(404, "NotFound", None, FALSE, FALSE)
                  /\ UNCHANGED <<encryption_service, dek_cache>>
             ELSE LET blob == rows[1]
                      service == IF has_ciphertext(blob)
                                 THEN get_encryption_service(ok)
                                 ELSE encryption_service
                      res == decrypt_blob_content(blob, service, db.data_encryption_keys,
                                                  dek_cache, clock, kms_ok)
                  IN /\ encryption_service' = service
                     /\ dek_cache' = res.cache
                     /\ last' = IF res.raised
                                THEN ans(500, res.error, None, FALSE, FALSE)
                                ELSE ans(200, None, res.content,
                                         blob.content_encrypted # None, res.decrypted)
    /\ UNCHANGED <<db, tx, pc, req, history, active_dek, ENCRYPTION_ENABLED, sessions, streams, clock>>

-----------------------------------------------------------------------------
(* POST /v2/link, GET /v2/links, GET /v2/reflect *)

\* Request bodies of create_link: (source_blob, target_blob), the two
\* branches, the link type.
LinkEnds ==
    { <<compute_hash("memo"), compute_hash("{x:1}")>>,
      <<compute_hash("{x:1}"), compute_hash("memo")>>,
      <<"", compute_hash("memo")>> }
LinkBranches ==
    { <<DEFAULT_BRANCH, DEFAULT_BRANCH>>, <<DEFAULT_BRANCH, "b1">>, <<DEFAULT_BRANCH, "">> }
LinkTypes == {"resonance", "causal", "similar"}

\* valid_types as it would be with one more type accepted.
valid_types_similar ==
    {"resonance", "causal", "contradiction", "elaboration", "application", "similar"}

\* Line 593.
valid_types == {"resonance", "causal", "contradiction", "elaboration", "application"}

\* cross_references_unique as it would be with a key on the two blobs alone.
cross_references_pair(rows, source_blob, target_blob, link_type) ==
    \E x \in rows : x.source_blob = source_blob /\ x.target_blob = target_blob

\* The unique key of cross_references.
cross_references_unique(rows, source_blob, target_blob, link_type) ==
    \E x \in rows : /\ x.source_blob = source_blob /\ x.target_blob = target_blob
                    /\ x.link_type = link_type

\* Lines 581-626: the fields are validated, the row is inserted and
\* committed; a unique violation is rolled back and answered 409.
CreateLink(w, quota) ==
    /\ pc[w] = "idle"
    /\ Started < quota
    /\ \E ends \in LinkEnds, branches \in LinkBranches, link_type \in LinkTypes,
          now \in Times :
          LET row == [ source_blob |-> ends[1], target_blob |-> ends[2],
                       source_branch |-> branches[1], target_branch |-> branches[2],
                       link_type |-> link_type, weight |-> 1, reasoning |-> "",
                       created_at |-> now ]
              ans(st, err) == [ kind |-> "link", rid |-> last.rid + 1, status |-> st,
                                error |-> err, row |-> row, ended_at |-> "idle" ]
          IN IF ends[1] = "" \/ ends[2] = "" \/ branches[1] = "" \/ branches[2] = ""
             THEN last' = ans(400, "Invalid") /\ db' = db
             ELSE IF link_type \notin valid_types
             THEN last' = ans(400, "Invalid") /\ db' = db
             ELSE IF cross_references_unique(db.cross_references, ends[1], ends[2], link_type)
             THEN last' = ans(409, "Conflict") /\ db' = db
             ELSE \/ /\ last' = ans(201, None)
                     /\ db' = [db EXCEPT !.cross_references = @ \cup {row}]
                  \/ last' = ans(500, "Unavailable") /\ db' = db
    /\ UNCHANGED <<tx, pc, req, history, encryption_service, active_dek,
                   ENCRYPTION_ENABLED, sessions, streams, dek_cache, clock>>

\* created_at as a point of time.
TimeOf(t) == CASE t = "T1" -> 1 [] t = "T2" -> 2 [] OTHER -> 0

\* ORDER BY created_at DESC
newer(x, y) == TimeOf(x.created_at) > TimeOf(y.created_at)

\* The first limit rows of S in an order that puts no row before a newer
\* one (ORDER BY ... LIMIT; rows that tie come in any order).
Listings(S, limit) ==
    LET n == Cardinality(S)
        m == IF limit < n THEN limit ELSE n
    IN { SubSeq(f, 1, m) :
           f \in { g \in [1..n -> S] :
                     /\ \A i, j \in 1..n : i # j => g[i] # g[j]
                     /\ \A i, j \in 1..n : i < j => ~newer(g[j], g[i]) } }

\* Lines 636-653: the WHERE clause of list_links; None is a filter not given.
link_matches(x, blob, branch, link_type) ==
    /\ blob = None \/ x.source_blob = blob \/ x.target_blob = blob
    /\ branch = None \/ x.source_branch = branch \/ x.target_branch = branch
    /\ link_type = None \/ x.link_type = link_type

\* Lines 628-665.
ListLinks(w, quota) ==
    /\ pc[w] = "idle"
    /\ Started < quota
    /\ \E blob \in {None, compute_hash("memo")}, branch \in {None, "b1"},
          link_type \in {None, "resonance"}, limit \in 0..MaxLimit :
       \E links \in Listings({x \in db.cross_references :
                                 link_matches(x, blob, branch, link_type)},
                             limit) :
          last' = [ kind |-> "links", rid |-> last.rid + 1, blob |-> blob,
                    branch |-> branch, link_type |-> link_type, limit |-> limit,
                    status |-> 200, links |-> links, ended_at |-> "idle" ]
    /\ UNCHANGED <<db, tx, pc, req, history, encryption_service, active_dek,
                   ENCRYPTION_ENABLED, sessions, streams, dek_cache, clock>>

\* Lines 741-755, the query for the highly connected blobs.  It has a HAVING
\* clause and no GROUP BY, so PostgreSQL takes it as a grouped query and
\* refuses the ungrouped columns of its select list (b.blob_hash, ...) when
\* it analyses the statement, whatever rows are stored: cur.execute raises.
highly_connected(d, min_links, limit) ==
    [raised |-> TRUE, error |-> "GroupingError", rows |-> <<>>]

\* Lines 732-791.  The first query raising, Flask answers 500.
Reflect(w, quota) ==
    /\ pc[w] = "idle"
    /\ Started < quota
    /\ \E min_links \in 1..2, limit \in 0..MaxLimit :
          LET q == highly_connected(db, min_links, limit)
          IN last' = [ kind |-> "reflect", rid |-> last.rid + 1,
                       min_links |-> min_links, limit |-> limit,
                       status |-> IF q.raised THEN 500 ELSE 200,
                       error |-> q.error, highly_connected |-> q.rows,
                       ended_at |-> "idle" ]
    /\ UNCHANGED <<db, tx, pc, req, history, encryption_service, active_dek,
                   ENCRYPTION_ENABLED, sessions, streams, dek_cache, clock>>

-----------------------------------------------------------------------------
(* The process *)

\* The server process is started again: the module globals of app.py and of
\* encryption_service.py are as at import.
Restart ==
    /\ \A w \in Workers : pc[w] = "idle"
    /\ encryption_service \/ active_dek # NoDek \/ dek_cache # NoRows
    /\ encryption_service' = FALSE
    /\ active_dek' = NoDek
    /\ dek_cache' = NoRows
    /\ UNCHANGED <<db, tx, pc, req, history, last, ENCRYPTION_ENABLED, sessions, streams, clock>>

-----------------------------------------------------------------------------
(* The system *)

\* The store of a deployment: the default branch as create_branch makes a
\* branch that has no source, empty (GENESIS); the tenant's active key when
\* the encryption migration has run.
InitDb(dek) ==
    [ branches |-> (DEFAULT_BRANCH :> [head_commit |-> GENESIS, created_at |-> "T0"]),
      commits |-> NoRows, tree_entries |-> NoRows, blobs |-> NoRows, tags |-> NoRows,
      cross_references |-> {},
      tasks |-> NoRows, halted |-> FALSE,
      data_encryption_keys |->
          IF dek THEN (DekRow.key_id :> [wrapped_key |-> DekRow.wrapped_key,
                                         status |-> DekRow.status])
          ELSE NoRows ]

NoRequest == [kind |-> "none", rid |-> 0, status |-> 0, ended_at |-> None]

InitProcess ==
    /\ tx = [w \in Workers |-> EmptyTx]
    /\ pc = [w \in Workers |-> "idle"]
    /\ req = [w \in Workers |-> Idle]
    /\ history = {}
    /\ last = NoRequest
    /\ encryption_service = FALSE
    /\ active_dek = NoDek
    /\ dek_cache = NoRows
    /\ clock = 0
    /\ sessions = NoRows
    /\ streams = NoRows

Init ==
    /\ ENCRYPTION_ENABLED \in BOOLEAN
    /\ \E dek \in BOOLEAN : (dek => ENCRYPTION_ENABLED) /\ db = InitDb(dek)
    /\ InitProcess

\* Requests are served one after another.
Next ==
    \E w \in {1} :
        \/ CommitBegin(w, MaxReqs)
        \/ InsertBlob(w)
        \/ InsertTree(w)
        \/ ReadHead(w)
        \/ InsertCommit(w)
        \/ UpdateHead(w)
        \/ InsertTag(w)
        \/ CommitEnd(w)
        \/ BranchBegin(w, MaxReqs)
        \/ BranchExists(w)
        \/ BranchSource(w)
        \/ BranchInsert(w)
        \/ BranchEnd(w)
        \/ Log(w, MaxReqs)
        \/ Raise(w)

Spec == Init /\ [][Next]_vars

\* Requests are served as they arrive, up to NumWorkers at a time.
NextConc ==
    \E w \in Workers :
        \/ CommitBegin(w, MaxConcReqs)
        \/ InsertBlob(w)
        \/ InsertTree(w)
        \/ ReadHead(w)
        \/ InsertCommit(w)
        \/ UpdateHead(w)
        \/ InsertTag(w)
        \/ CommitEnd(w)
        \/ BranchBegin(w, MaxConcReqs)
        \/ BranchExists(w)
        \/ BranchSource(w)
        \/ BranchInsert(w)
        \/ BranchEnd(w)
        \/ Log(w, MaxConcReqs)
        \/ Raise(w)

SpecConc == Init /\ [][NextConc]_vars

\* Every handler of the engine, requests served one after another, and
\* restarts of the process between them.
NextApi ==
    \/ \E w \in {1} :
        \/ CommitBegin(w, MaxApiReqs)
        \/ InsertBlob(w)
        \/ InsertTree(w)
        \/ ReadHead(w)
        \/ InsertCommit(w)
        \/ UpdateHead(w)
        \/ InsertTag(w)
        \/ CommitEnd(w)
        \/ BranchBegin(w, MaxApiReqs)
        \/ BranchExists(w)
        \/ BranchSource(w)
        \/ BranchInsert(w)
        \/ BranchEnd(w)
        \/ Log(w, MaxApiReqs)
        \/ Checkout(w, MaxApiReqs)
        \/ Recall(w, MaxApiReqs)
        \/ CreateLink(w, MaxApiReqs)
        \/ ListLinks(w, MaxApiReqs)
        \/ Reflect(w, MaxApiReqs)
        \/ Raise(w)
    \/ Restart

SpecApi == Init /\ [][NextApi]_vars

\* A store as an earlier version of the schema, or an import, may have left
\* it: commit rows whose parent_hash names any row or none, a head that names
\* any row or none.
OldHashes == {"h1", "h2", "h3"}

OldCommit(parent_hash) ==
    [ tree_hash |-> "H(old)", parent_hash |-> parent_hash, author |-> "claude",
      message |-> "m0", created_at |-> "T0" ]

InitLog ==
    /\ \E present \in SUBSET OldHashes, parent \in [OldHashes -> OldHashes \cup {None}],
          head \in OldHashes \cup {GENESIS} :
          db = [ InitDb(FALSE) EXCEPT
                   !.commits = [h \in present |-> OldCommit(parent[h])],
                   !.branches = (DEFAULT_BRANCH :>
                                    [head_commit |-> head, created_at |-> "T0"]) ]
    /\ ENCRYPTION_ENABLED = FALSE
    /\ InitProcess

NextLog == \E w \in {1} : Log(w, MaxReqs)

SpecLog == InitLog /\ [][NextLog]_vars

-----------------------------------------------------------------------------
(* The DEK cache of the encryption service, called directly *)

DekKeyIds == {"k1", key_id_of("dek3", "s1")}
WrappedDeks == {"W(dek1)", kms_encrypt("dek3")}
TickSteps == {150, 299}     \* seconds between two calls

\* Per key id, when the KMS last answered for it and with which key, as the
\* responses show it; the age of that answer at a later call (-1: none).
Answered(seen, key_id, result, now) ==
    IF result.kms_called /\ ~result.raised
    THEN [k \in DOMAIN seen \cup {key_id} |->
            IF k = key_id THEN [dek |-> result.dek, at |-> now] ELSE seen[k]]
    ELSE seen

AgeOf(seen, key_id, now) ==
    IF key_id \in DOMAIN seen THEN now - seen[key_id].at ELSE -1

NoDekCall == [kind |-> "none", rid |-> 0, status |-> 0, ended_at |-> None,
              populated |-> NoRows]

\* service.unwrap_dek(key_id, wrapped_dek) at time clock.
UnwrapDek ==
    /\ last.rid < MaxDekCalls
    /\ \E key_id \in DekKeyIds, wrapped_dek \in WrappedDeks, kms_ok \in BOOLEAN :
          LET res == unwrap_dek_kms(dek_cache, key_id, wrapped_dek, clock, kms_ok)
          IN /\ dek_cache' = res.cache
             /\ last' = [ kind |-> "unwrap", rid |-> last.rid + 1, key_id |-> key_id,
                          wrapped_dek |-> wrapped_dek, kms_ok |-> kms_ok,
                          raised |-> res.raised, dek |-> res.dek,
                          kms_called |-> res.kms_called, at |-> clock,
                          age |-> AgeOf(last.populated, key_id, clock),
                          populated |-> Answered(last.populated, key_id, res, clock) ]
    /\ UNCHANGED <<db, tx, pc, req, history, encryption_service, active_dek,
                   ENCRYPTION_ENABLED, sessions, streams, clock>>

\* service.generate_dek() at time clock.
GenerateDek ==
    /\ last.rid < MaxDekCalls
    /\ \E plaintext_dek \in {"dek3"}, salt \in {"s1"}, kms_ok \in BOOLEAN :
          LET res == generate_dek(dek_cache, plaintext_dek, salt, clock, kms_ok)
              key_id == key_id_of(plaintext_dek, salt)
          IN /\ dek_cache' = res.cache
             /\ last' = [ kind |-> "generate", rid |-> last.rid + 1, key_id |-> res.key_id,
                          wrapped_dek |-> res.wrapped_dek, kms_ok |-> kms_ok,
                          raised |-> res.raised, dek |-> res.dek,
                          kms_called |-> res.kms_called, at |-> clock,
                          age |-> AgeOf(last.populated, key_id, clock),
                          populated |-> Answered(last.populated, key_id, res, clock) ]
    /\ UNCHANGED <<db, tx, pc, req, history, encryption_service, active_dek,
                   ENCRYPTION_ENABLED, sessions, streams, clock>>

\* EncryptionService.clear_dek_cache().
ClearDekCache ==
    /\ dek_cache # NoRows
    /\ dek_cache' = NoRows
    /\ last' = [last EXCEPT !.populated = NoRows]
    /\ UNCHANGED <<db, tx, pc, req, history, encryption_service, active_dek,
                   ENCRYPTION_ENABLED, sessions, streams, clock>>

\* Time passes between two calls.
Tick ==
    /\ \E d \in TickSteps : clock + d <= MaxClock /\ clock' = clock + d
    /\ UNCHANGED <<db, tx, pc, req, history, last, encryption_service, active_dek,
                   ENCRYPTION_ENABLED, sessions, streams, dek_cache>>

InitDek ==
    /\ ENCRYPTION_ENABLED = TRUE
    /\ db = InitDb(TRUE)
    /\ tx = [w \in Workers |-> EmptyTx]
    /\ pc = [w \in Workers |-> "idle"]
    /\ req = [w \in Workers |-> Idle]
    /\ history = {}
    /\ last = NoDekCall
    /\ encryption_service = TRUE
    /\ active_dek = NoDek
    /\ dek_cache = NoRows
    /\ clock = 0
    /\ sessions = NoRows
    /\ streams = NoRows

NextDek == UnwrapDek \/ GenerateDek \/ ClearDekCache \/ Tick

SpecDek == InitDek /\ [][NextDek]_vars

-----------------------------------------------------------------------------
(* unwrap_dek called by threads of one process (app.run serves threaded) *)

UnwrapLocals(key_id, wrapped_dek) ==
    [ kind |-> "unwrap", key_id |-> key_id, wrapped_dek |-> wrapped_dek,
      kms_called |-> FALSE, dek |-> None ]

UnwrapReturn(w, r, raised, dek) ==
    /\ last' = [ kind |-> "unwrap", rid |-> last.rid + 1, key_id |-> r.key_id,
                 wrapped_dek |-> r.wrapped_dek, raised |-> raised, dek |-> dek,
                 kms_called |-> r.kms_called, at |-> clock ]
    /\ pc' = [pc EXCEPT ![w] = "idle"]
    /\ req' = [req EXCEPT ![w] = Idle]

\* Lines 86-89: the cache is read; a valid entry is returned.
UnwrapCheck(w) ==
    /\ pc[w] = "idle"
    /\ Started < MaxDekCalls
    /\ \E key_id \in DekKeyIds, wrapped_dek \in WrappedDeks :
          IF cache_valid(dek_cache, key_id, clock)
          THEN UnwrapReturn(w, UnwrapLocals(key_id, wrapped_dek), FALSE,
                            dek_cache[key_id].dek)
          ELSE /\ Goto(w, "kms", UnwrapLocals(key_id, wrapped_dek))
               /\ last' = last
    /\ UNCHANGED <<db, tx, history, encryption_service, active_dek,
                   ENCRYPTION_ENABLED, sessions, streams, dek_cache, clock>>

\* Lines 92-95: kms_client.decrypt; it raises when the KMS does not answer.
UnwrapKms(w) ==
    /\ pc[w] = "kms"
    /\ \E kms_ok \in BOOLEAN :
          LET r == [req[w] EXCEPT !.kms_called = TRUE]
          IN IF kms_ok
             THEN /\ Goto(w, "put", [r EXCEPT !.dek = kms_decrypt(r.wrapped_dek)])
                  /\ last' = last
             ELSE UnwrapReturn(w, r, TRUE, None)
    /\ UNCHANGED <<db, tx, history, encryption_service, active_dek,
                   ENCRYPTION_ENABLED, sessions, streams, dek_cache, clock>>

\* Lines 98-100: the cache entry is written and the key returned.
UnwrapPut(w) ==
    /\ pc[w] = "put"
    /\ dek_cache' = cache_put(dek_cache, req[w].key_id, req[w].dek, clock)
    /\ UnwrapReturn(w, req[w], FALSE, req[w].dek)
    /\ UNCHANGED <<db, tx, history, encryption_service, active_dek,
                   ENCRYPTION_ENABLED, sessions, streams, clock>>

NextDekConc ==
    \/ \E w \in Workers : UnwrapCheck(w)
    \/ \E w \in Workers : UnwrapKms(w)
    \/ \E w \in Workers : UnwrapPut(w)
    \/ Tick

SpecDekConc == InitDek /\ [][NextDekConc]_vars

-----------------------------------------------------------------------------
(* The cipher and the key backup, called directly *)

CryptoDeks == {kms_decrypt("W(dek1)"), "dek3"}
Plaintexts == {content_str(c) : c \in Contents}
Passphrases == {"pw1", "pw2"}
BackupSalts == {"salt0123456789ab", "salt0123456789cd"}    \* secrets.token_bytes(16)
BackupNonces == {"nonce0123456"}                           \* secrets.token_bytes(12)

\* A byte string with its i-th byte changed.
Flip(s, i) == SubSeq(s, 1, i - 1) \o "~" \o SubSeq(s, i + 1, Len(s))

Flips(s) == {Flip(s, i) : i \in 1..Len(s)}

\* service.encrypt(plaintext, dek)
Encrypt ==
    /\ last.rid < MaxCryptoCalls
    /\ \E plaintext \in Plaintexts, dek \in CryptoDeks, nonce \in Nonces :
          last' = [ kind |-> "encrypt", rid |-> last.rid + 1, plaintext |-> plaintext,
                    dek |-> dek, nonce |-> nonce,
                    ciphertext |-> encrypt(plaintext, dek, nonce) ]
    /\ UNCHANGED <<db, tx, pc, req, history, encryption_service, active_dek,
                   ENCRYPTION_ENABLED, sessions, streams, dek_cache, clock>>

\* service.decrypt(ciphertext, nonce, dek) of what encrypt returned, or of
\* that with another key, a changed nonce or a changed ciphertext.
Decrypt ==
    /\ last.rid < MaxCryptoCalls
    /\ last.kind = "encrypt"
    /\ \E dek \in CryptoDeks, nonce \in {last.nonce} \cup Flips(last.nonce),
          ciphertext \in {last.ciphertext} \cup Flips(last.ciphertext) :
          LET p == decrypt(ciphertext, nonce, dek)
          IN last' = [ kind |-> "decrypt", rid |-> last.rid + 1,
                       plaintext |-> last.plaintext, dek |-> last.dek,
                       nonce |-> last.nonce, ciphertext |-> last.ciphertext,
                       used_dek |-> dek, used_nonce |-> nonce,
                       used_ciphertext |-> ciphertext,
                       raised |-> p.raised, result |-> p.plaintext ]
    /\ UNCHANGED <<db, tx, pc, req, history, encryption_service, active_dek,
                   ENCRYPTION_ENABLED, sessions, streams, dek_cache, clock>>

\* export_dek_backup(wrapped_dek, passphrase)
ExportDekBackup ==
    /\ last.rid < MaxCryptoCalls
    /\ \E wrapped_dek \in WrappedDeks, passphrase \in Passphrases,
          salt \in BackupSalts, nonce \in BackupNonces :
          last' = [ kind |-> "export", rid |-> last.rid + 1,
                    wrapped_dek |-> wrapped_dek, passphrase |-> passphrase,
                    backup_data |-> export_dek_backup(wrapped_dek, passphrase, salt, nonce) ]
    /\ UNCHANGED <<db, tx, pc, req, history, encryption_service, active_dek,
                   ENCRYPTION_ENABLED, sessions, streams, dek_cache, clock>>

\* import_dek_backup(backup_data, passphrase) of what export_dek_backup
\* returned, or of that with one byte changed, under any passphrase.
ImportDekBackup ==
    /\ last.rid < MaxCryptoCalls
    /\ last.kind = "export"
    /\ \E passphrase \in Passphrases,
          backup_data \in {last.backup_data} \cup Flips(last.backup_data) :
          LET res == import_dek_backup(backup_data, passphrase)
          IN last' = [ kind |-> "import", rid |-> last.rid + 1,
                       wrapped_dek |-> last.wrapped_dek, passphrase |-> last.passphrase,
                       backup_data |-> last.backup_data,
                       used_passphrase |-> passphrase, used_backup_data |-> backup_data,
                       raised |-> res.raised, result |-> res.wrapped_dek ]
    /\ UNCHANGED <<db, tx, pc, req, history, encryption_service, active_dek,
                   ENCRYPTION_ENABLED, sessions, streams, dek_cache, clock>>

InitCrypto ==
    /\ ENCRYPTION_ENABLED = TRUE
    /\ db = InitDb(TRUE)
    /\ InitProcess

NextCrypto == Encrypt \/ Decrypt \/ ExportDekBackup \/ ImportDekBackup

SpecCrypto == InitCrypto /\ [][NextCrypto]_vars

-----------------------------------------------------------------------------
(* run_phase2_migration.py: a migration run is a process of its own, with its
   own connection and its own DEK cache *)

GeneratedDeks == {"dek3", "dek4"}     \* values of secrets.token_bytes(32)

MigrationLocals ==
    [ kind |-> "migration", rid |-> 0, interleaved |-> FALSE,
      key_id |-> None, generated |-> FALSE,
      dek_rows |-> NoRows,        \* INSERTed into data_encryption_keys, not committed
      cache |-> NoRows,           \* _dek_cache of this process
      plaintext_dek |-> None,
      blobs |-> {},               \* blob hashes of the SELECT of lines 129-133 still to do
      selected |-> {},            \* all the blob hashes that SELECT returned
      updates |-> NoRows,         \* UPDATEs of blobs, not committed
      migrated |-> 0, status |-> 0, ended_at |-> None ]

\* The active key rows of the tenant.
active_keys(keys) == {k \in DOMAIN keys : keys[k].status = "active"}

\* Another open transaction has a pending INSERT of the key row k.
DekInsertPending(w, k) ==
    \E o \in Workers \ {w} : req[o].kind = "migration" /\ k \in DOMAIN req[o].dek_rows

\* Another open transaction holds the row lock of blob h (it UPDATEd it).
BlobLocked(w, h) ==
    \E o \in Workers \ {w} : req[o].kind = "migration" /\ h \in DOMAIN req[o].updates

\* migration_commit as it would be if the UPDATE also cleared the plaintext
\* column of the blobs it encrypts.
migration_commit_clearing(d, r) ==
    [ d EXCEPT
        !.data_encryption_keys = d.data_encryption_keys @@ r.dek_rows,
        !.blobs = [ h \in DOMAIN d.blobs |->
                      IF h \in DOMAIN r.updates
                      THEN [ d.blobs[h] EXCEPT
                               !.content = None,
                               !.content_encrypted = r.updates[h].content_encrypted,
                               !.nonce = r.updates[h].nonce,
                               !.encryption_key_id = r.updates[h].encryption_key_id ]
                      ELSE d.blobs[h] ] ]

\* conn.commit() of a migration run: its pending key rows are added and its
\* pending UPDATEs replace the three encryption columns of their blobs.
migration_commit(d, r) ==
    [ d EXCEPT
        !.data_encryption_keys = d.data_encryption_keys @@ r.dek_rows,
        !.blobs = [ h \in DOMAIN d.blobs |->
                      IF h \in DOMAIN r.updates
                      THEN [ d.blobs[h] EXCEPT
                               !.content_encrypted = r.updates[h].content_encrypted,
                               !.nonce = r.updates[h].nonce,
                               !.encryption_key_id = r.updates[h].encryption_key_id ]
                      ELSE d.blobs[h] ] ]

\* main(), lines 260-273, and generate_tenant_dek, lines 85-94: the run
\* connects and looks for an active key of the tenant.
MigrationBegin(w, quota) ==
    /\ pc[w] = "idle"
    /\ Started < quota
    /\ LET existing == active_keys(db.data_encryption_keys)
       IN IF existing # {}
          THEN \E k \in existing :
                  Enter(w, "mig_blobs", [MigrationLocals EXCEPT !.key_id = k])
          ELSE Enter(w, "mig_generate", MigrationLocals)
    /\ UNCHANGED <<db, tx, history, last, encryption_service, active_dek,
                   ENCRYPTION_ENABLED, sessions, streams, dek_cache, clock>>

\* Lines 97-105: generate_dek and the INSERT of the wrapped key.  key_id is
\* the primary key of data_encryption_keys (line 42).
MigrationGenerate(w) ==
    /\ pc[w] = "mig_generate"
    /\ \E plaintext_dek \in GeneratedDeks, salt \in {"s1"} :
          LET g == generate_dek(req[w].cache, plaintext_dek, salt, clock, TRUE)
              row == [wrapped_key |-> g.wrapped_dek, status |-> "active"]
          IN /\ ~DekInsertPending(w, g.key_id)
             /\ IF g.key_id \in DOMAIN db.data_encryption_keys
                THEN Finish(w, 500, "IntegrityError", db)
                ELSE /\ Goto(w, "mig_commit",
                             [req[w] EXCEPT !.key_id = g.key_id, !.generated = TRUE,
                                            !.cache = g.cache,
                                            !.dek_rows = (g.key_id :> row)])
                     /\ UNCHANGED <<db, tx, history, last>>
    /\ UNCHANGED <<encryption_service, active_dek, ENCRYPTION_ENABLED, sessions, streams, dek_cache, clock>>

\* Line 106: conn.commit().
MigrationCommitDek(w) ==
    /\ pc[w] = "mig_commit"
    /\ db' = migration_commit(db, req[w])
    /\ Goto(w, "mig_blobs", [req[w] EXCEPT !.dek_rows = NoRows])
    /\ UNCHANGED <<tx, history, last, encryption_service, active_dek,
                   ENCRYPTION_ENABLED, sessions, streams, dek_cache, clock>>

\* unencrypted_blobs as it would be without 'AND content_encrypted IS NULL'.
unencrypted_blobs_all(d) == {h \in DOMAIN d.blobs : d.blobs[h].content # None}

\* Lines 129-133: SELECT blob_hash, content FROM blobs WHERE content IS NOT
\* NULL AND content_encrypted IS NULL.
unencrypted_blobs(d) ==
    {h \in DOMAIN d.blobs :
        d.blobs[h].content # None /\ d.blobs[h].content_encrypted = None}

\* migrate_blobs, lines 119-133: the wrapped key is read and unwrapped, and
\* the blobs that have content and no ciphertext are selected.
MigrationSelect(w) ==
    /\ pc[w] = "mig_blobs"
    /\ LET r == req[w]
           u == unwrap_dek(r.cache, r.key_id,
                           db.data_encryption_keys[r.key_id].wrapped_key, clock)
           found == unencrypted_blobs(db)
       IN Goto(w, "mig_update",
               [r EXCEPT !.cache = u.cache, !.plaintext_dek = u.dek, !.blobs = found,
                         !.selected = found])
    /\ UNCHANGED <<db, tx, history, last, encryption_service, active_dek,
                   ENCRYPTION_ENABLED, sessions, streams, dek_cache, clock>>

\* Lines 142-152: one blob of the list is encrypted and UPDATEd.  The UPDATE
\* waits for a row lock another transaction holds; it names the row by its
\* blob_hash alone.
MigrationUpdate(w) ==
    /\ pc[w] = "mig_update"
    /\ \E h \in req[w].blobs, nonce \in Nonces :
          /\ ~BlobLocked(w, h)
          /\ LET r == req[w]
                 u == [ content_encrypted |-> encrypt(db.blobs[h].content,
                                                     r.plaintext_dek, nonce),
                        nonce |-> nonce, encryption_key_id |-> r.key_id ]
             IN Goto(w, "mig_update",
                     [r EXCEPT !.blobs = @ \ {h}, !.updates = (h :> u) @@ @,
                               !.migrated = @ + 1])
    /\ UNCHANGED <<db, tx, history, last, encryption_service, active_dek,
                   ENCRYPTION_ENABLED, sessions, streams, dek_cache, clock>>

\* Lines 135-138 and 162-165: the list is done; conn.commit() and the run ends.
MigrationEnd(w) ==
    /\ pc[w] = "mig_update"
    /\ req[w].blobs = {}
    /\ last' = [ kind |-> "migration", rid |-> last.rid + 1, status |-> 200,
                 key_id |-> req[w].key_id, generated |-> req[w].generated,
                 migrated |-> req[w].migrated, interleaved |-> req[w].interleaved,
                 ended_at |-> "mig_update" ]
    /\ db' = migration_commit(db, req[w])
    /\ pc' = [pc EXCEPT ![w] = "idle"]
    /\ req' = [req EXCEPT ![w] = Idle]
    /\ UNCHANGED <<tx, history, encryption_service, active_dek,
                   ENCRYPTION_ENABLED, sessions, streams, dek_cache, clock>>

\* A store before the migration: a blob written before encryption, or none;
\* an active key when an earlier run made one.
OldBlob ==
    [ content |-> "memo", content_encrypted |-> None, nonce |-> None,
      encryption_key_id |-> None, content_type |-> "memory", created_at |-> "T0",
      byte_size |-> Len("memo") ]

InitMigration ==
    /\ ENCRYPTION_ENABLED \in BOOLEAN
    /\ \E dek \in BOOLEAN, old \in BOOLEAN :
          db = [ InitDb(dek) EXCEPT
                   !.blobs = IF old THEN (compute_hash("memo") :> OldBlob) ELSE NoRows ]
    /\ InitProcess

\* Migration runs, one or two at a time, and Commits served by the
\* application meanwhile.
NextMigration ==
    \/ \E w \in Workers : MigrationBegin(w, MaxConcReqs)
    \/ \E w \in Workers : MigrationGenerate(w)
    \/ \E w \in Workers : MigrationCommitDek(w)
    \/ \E w \in Workers : MigrationSelect(w)
    \/ \E w \in Workers : MigrationUpdate(w)
    \/ \E w \in Workers : MigrationEnd(w)
    \/ \E w \in {1} :
        \/ CommitBegin(w, MaxConcReqs)
        \/ InsertBlob(w)
        \/ InsertTree(w)
        \/ ReadHead(w)
        \/ InsertCommit(w)
        \/ UpdateHead(w)
        \/ InsertTag(w)
        \/ CommitEnd(w)
    \/ \E w \in Workers : Raise(w)

SpecMigration == InitMigration /\ [][NextMigration]_vars

-----------------------------------------------------------------------------
(* server.py: the MCP tool handlers, which proxy tool calls to the HTTP API *)

NoArgs == <<>>                                  \* an empty dict
Restrict(f, keys) == [k \in DOMAIN f \cap keys |-> f[k]]
Get(f, k) == IF k \in DOMAIN f THEN f[k] ELSE None

TaskIds == {"t1", "t2"}
Instances == {"A", "B"}

\* call_tool, lines 481-487 and 545-583: the HTTP request a tool call makes.
call_tool(name, arguments) ==
    CASE name = "boswell_links" ->
           [ route |-> "GET /links", task_id |-> None,
             params |-> Restrict(arguments, {"branch", "link_type"}) ]
      [] name = "boswell_create_task" ->
           [ route |-> "POST /tasks", task_id |-> None,
             params |-> Restrict(arguments, {"description", "branch", "priority",
                                             "assigned_to", "metadata"}) ]
      [] name = "boswell_claim_task" ->
           [ route |-> "POST /tasks/<id>/claim", task_id |-> arguments["task_id"],
             params |-> ("instance_id" :> arguments["instance_id"]) ]
      [] name = "boswell_release_task" ->
           [ route |-> "POST /tasks/<id>/release", task_id |-> arguments["task_id"],
             params |-> ("instance_id" :> arguments["instance_id"]
                          @@ "reason" :> IF "reason" \in DOMAIN arguments
                                         THEN arguments["reason"] ELSE "manual") ]
      [] name = "boswell_delete_task" ->
           [ route |-> "DELETE /tasks/<id>", task_id |-> arguments["task_id"],
             params |-> NoArgs ]
      [] name = "boswell_halt_tasks" ->
           [ route |-> "POST /tasks/halt", task_id |-> None,
             params |-> Restrict(arguments, {"reason"}) ]
      [] name = "boswell_resume_tasks" ->
           [ route |-> "POST /tasks/resume", task_id |-> None, params |-> NoArgs ]
      [] name = "boswell_halt_status" ->
           [ route |-> "GET /tasks/halt-status", task_id |-> None, params |-> NoArgs ]

\* The arguments the tool calls of the model pass.
ToolArgs(name) ==
    CASE name = "boswell_links" ->
           { NoArgs, ("link_type" :> "causal"), ("branch" :> "b1"),
             ("branch" :> "b1" @@ "link_type" :> "resonance") }
      [] name = "boswell_create_task" ->
           { ("description" :> "d1") }
      [] name \in {"boswell_claim_task"} ->
           { ("task_id" :> t @@ "instance_id" :> i) : t \in TaskIds, i \in Instances }
      [] name = "boswell_release_task" ->
           { ("task_id" :> "t1" @@ "instance_id" :> i) : i \in Instances }
             \cup { ("task_id" :> "t1" @@ "instance_id" :> "A" @@ "reason" :> "completed") }
      [] name = "boswell_delete_task" -> { ("task_id" :> "t1") }
      [] name = "boswell_halt_tasks" -> { NoArgs, ("reason" :> "r1") }
      [] OTHER -> { NoArgs }

ToolNames ==
    { "boswell_links", "boswell_create_task", "boswell_claim_task",
      "boswell_release_task", "boswell_delete_task", "boswell_halt_tasks",
      "boswell_resume_tasks", "boswell_halt_status" }

\* list_links, app.py lines 631-661, on the query string params: the filters
\* are read from the parameters blob, branch and type; limit is 50.
list_links(d, params) ==
    Listings({x \in d.cross_references :
                 link_matches(x, Get(params, "blob"), Get(params, "branch"),
                              Get(params, "type"))}, 50)

\* The task queue behind /v2/tasks.  A task is open, claimed, blocked, done
\* or deleted; deleted tasks are not found any more.
TaskFound(d, t) == t \in DOMAIN d.tasks /\ d.tasks[t].status # "deleted"

Answer(st, err, body, d) == [status |-> st, error |-> err, body |-> body, db |-> d]

\* POST /tasks: a new open task under the next free id.
create_task(d, params) ==
    IF \A t \in TaskIds : t \in DOMAIN d.tasks
    THEN Answer(500, "Unavailable", None, d)
    ELSE LET t == CHOOSE x \in TaskIds \ DOMAIN d.tasks :
                     \A y \in TaskIds \ DOMAIN d.tasks : Len(x) <= Len(y) /\ (x = "t1" \/ y # "t1")
         IN Answer(201, None, t,
                   [d EXCEPT !.tasks = @ @@ (t :> [status |-> "open",
                                                    assigned_to |-> Get(params, "assigned_to")])])

\* claim_task as it would be if a claim took a task over from its holder.
claim_task_takeover(d, t, instance_id) ==
    IF ~TaskFound(d, t) THEN Answer(404, "NotFound", None, d)
    ELSE IF d.halted THEN Answer(409, "Halted", None, d)
    ELSE IF d.tasks[t].status \in {"open", "claimed"}
    THEN Answer(200, None, t,
                [d EXCEPT !.tasks[t] = [status |-> "claimed", assigned_to |-> instance_id]])
    ELSE Answer(400, "Invalid", None, d)

\* POST /tasks/<id>/claim: open -> claimed by the instance; Conflict when
\* another instance holds the task; no claim while the queue is halted.
claim_task(d, t, instance_id) ==
    IF ~TaskFound(d, t) THEN Answer(404, "NotFound", None, d)
    ELSE IF d.halted THEN Answer(409, "Halted", None, d)
    ELSE IF d.tasks[t].status = "claimed"
    THEN IF d.tasks[t].assigned_to = instance_id
         THEN Answer(200, None, t, d)
         ELSE Answer(409, "Conflict", None, d)
    ELSE IF d.tasks[t].status = "open"
    THEN Answer(200, None, t,
                [d EXCEPT !.tasks[t] = [status |-> "claimed", assigned_to |-> instance_id]])
    ELSE Answer(400, "Invalid", None, d)

\* POST /tasks/<id>/release: claimed -> open (manual, timeout), done
\* (completed) or blocked, by the instance that holds the task.
release_task(d, t, instance_id, reason) ==
    IF ~TaskFound(d, t) THEN Answer(404, "NotFound", None, d)
    ELSE IF d.tasks[t].status # "claimed" \/ d.tasks[t].assigned_to # instance_id
    THEN Answer(409, "Conflict", None, d)
    ELSE Answer(200, None, t,
                [d EXCEPT !.tasks[t] =
                    [ status |-> CASE reason = "completed" -> "done"
                                   [] reason = "blocked" -> "blocked"
                                   [] OTHER -> "open",
                      assigned_to |-> None ]])

\* DELETE /tasks/<id>: any state -> deleted.
delete_task(d, t) ==
    IF ~TaskFound(d, t) THEN Answer(404, "NotFound", None, d)
    ELSE Answer(200, None, t, [d EXCEPT !.tasks[t].status = "deleted"])

\* halt_tasks as it would be if it set the flag and left the tasks alone.
halt_tasks_flag_only(d) == Answer(200, None, TRUE, [d EXCEPT !.halted = TRUE])

\* POST /tasks/halt: the flag is set and every claimed task is blocked.
halt_tasks(d) ==
    Answer(200, None, TRUE,
           [d EXCEPT !.halted = TRUE,
                     !.tasks = [t \in DOMAIN d.tasks |->
                                  IF d.tasks[t].status = "claimed"
                                  THEN [d.tasks[t] EXCEPT !.status = "blocked"]
                                  ELSE d.tasks[t]]])

\* POST /tasks/resume: the flag is cleared.
resume_tasks(d) == Answer(200, None, FALSE, [d EXCEPT !.halted = FALSE])

\* The API's answer to the request r on the store d.
api(d, r) ==
    CASE r.route = "POST /tasks" -> {create_task(d, r.params)}
      [] r.route = "POST /tasks/<id>/claim" ->
           {claim_task(d, r.task_id, r.params["instance_id"])}
      [] r.route = "POST /tasks/<id>/release" ->
           {release_task(d, r.task_id, r.params["instance_id"], r.params["reason"])}
      [] r.route = "DELETE /tasks/<id>" -> {delete_task(d, r.task_id)}
      [] r.route = "POST /tasks/halt" -> {halt_tasks(d)}
      [] r.route = "POST /tasks/resume" -> {resume_tasks(d)}
      [] r.route = "GET /tasks/halt-status" -> {Answer(200, None, d.halted, d)}
      [] r.route = "GET /links" ->
           {Answer(200, None, links, d) : links \in list_links(d, r.params)}

\* call_tool is entered: the request is built and sent (lines 431-438).
ToolCall(w, quota) ==
    /\ pc[w] = "idle"
    /\ Started < quota
    /\ \E name \in ToolNames :
       \E arguments \in ToolArgs(name) :
          Enter(w, "http", [ kind |-> "tool", rid |-> 0, interleaved |-> FALSE,
                             name |-> name, arguments |-> arguments,
                             request |-> call_tool(name, arguments),
                             status |-> 0, ended_at |-> None ])
    /\ UNCHANGED <<db, tx, history, last, encryption_service, active_dek,
                   ENCRYPTION_ENABLED, sessions, streams, dek_cache, clock>>

\* The API serves the request and call_tool returns its answer as text
\* (lines 609-620).
ToolReturn(w) ==
    /\ pc[w] = "http"
    /\ \E res \in api(db, req[w].request) :
          /\ db' = res.db
          /\ last' = [ kind |-> "tool", rid |-> last.rid + 1, name |-> req[w].name,
                       arguments |-> req[w].arguments, status |-> res.status,
                       error |-> res.error, body |-> res.body,
                       overlap |-> \E v \in Workers \ {w} : pc[v] = "http",
                       interleaved |-> req[w].interleaved, ended_at |-> "http" ]
    /\ history' = history \cup
          {[ kind |-> "tool", rid |-> last.rid + 1, name |-> req[w].name,
             task_id |-> Get(req[w].arguments, "task_id"),
             instance_id |-> Get(req[w].arguments, "instance_id"),
             status |-> last'.status, overlap |-> last'.overlap ]}
    /\ pc' = [pc EXCEPT ![w] = "idle"]
    /\ req' = [req EXCEPT ![w] = Idle]
    /\ UNCHANGED <<tx, encryption_service, active_dek,
                   ENCRYPTION_ENABLED, sessions, streams, dek_cache, clock>>

\* A deployment in use: task t1 is open or claimed by instance A, or there
\* is no task yet.
InitTools ==
    /\ ENCRYPTION_ENABLED = FALSE
    /\ \E tasks \in { NoRows,
                      ("t1" :> [status |-> "open", assigned_to |-> None]),
                      ("t1" :> [status |-> "claimed", assigned_to |-> "A"]) } :
          db = [InitDb(FALSE) EXCEPT !.tasks = tasks]
    /\ InitProcess

NextTools ==
    \/ \E w \in Workers : ToolCall(w, MaxToolCalls)
    \/ \E w \in Workers : ToolReturn(w)
    \/ \E w \in {1} : CreateLink(w, MaxToolCalls)

SpecTools == InitTools /\ [][NextTools]_vars

-----------------------------------------------------------------------------
(* http_server.py: the MCP server over SSE and over direct posts *)

SessionIds == {"s1", "s2"}            \* values of uuid.uuid4()

\* The value of the key params of a request body: absent, null or an object.
ParamsValues ==
    { [json |-> "absent", name |-> None], [json |-> "null", name |-> None],
      [json |-> "object", name |-> "boswell_head"] }

\* Request bodies.  A body that is not JSON is InvalidJson.
InvalidJson == [method |-> "", id |-> None, params |-> [json |-> "invalid", name |-> None]]

Bodies ==
    { [method |-> m, id |-> "1", params |-> [json |-> "absent", name |-> None]] :
         m \in {"initialize", "tools/list", "resources/list"} }
    \cup { [method |-> "ping", id |-> i, params |-> [json |-> "absent", name |-> None]] :
             i \in {"1", "2"} }
    \cup { [method |-> "tools/call", id |-> "1", params |-> p] : p \in ParamsValues }
    \cup { [method |-> "notifications/initialized", id |-> None,
            params |-> [json |-> "absent", name |-> None]] }

NoResponse == [jsonrpc |-> "none", id |-> None, result |-> None, code |-> 0]

JsonRpcResult(id, result) == [jsonrpc |-> "2.0", id |-> id, result |-> result, code |-> 0]
JsonRpcError(id, code) == [jsonrpc |-> "2.0", id |-> id, result |-> None, code |-> code]

\* process_mcp_request, lines 308-360.  params = body.get("params", {}) is
\* None for a null; params.get of line 334 then raises AttributeError.
\* call_boswell_tool catches what the tool call raises (lines 304-305).
process_mcp_request(body) ==
    IF body.method \in {"initialize", "tools/list", "ping"}
    THEN [raised |-> FALSE, response |-> JsonRpcResult(body.id, body.method)]
    ELSE IF body.method = "notifications/initialized"
    THEN [raised |-> FALSE, response |-> NoResponse]
    ELSE IF body.method = "tools/call"
    THEN IF body.params.json = "null"
         THEN [raised |-> TRUE, response |-> NoResponse]
         ELSE [raised |-> FALSE, response |-> JsonRpcResult(body.id, "content")]
    ELSE [raised |-> FALSE, response |-> JsonRpcError(body.id, -32601)]

\* queue_get as it would be if the queue gave its newest item first.
queue_get_newest(queue) ==
    [message |-> queue[Len(queue)], rest |-> SubSeq(queue, 1, Len(queue) - 1)]

\* asyncio.Queue.get of line 392: the oldest item leaves the queue.
queue_get(queue) == [message |-> Head(queue), rest |-> Tail(queue)]

\* handle_sse, lines 370-386: a session with a new id and an empty queue is
\* registered, and the generator yields the endpoint event.
SseConnect ==
    /\ \E s \in SessionIds \ DOMAIN streams :
          /\ sessions' = sessions @@ (s :> <<>>)
          /\ streams' = streams @@ (s :> [open |-> TRUE, events |-> <<>>])
    /\ UNCHANGED <<db, tx, pc, req, history, last, encryption_service, active_dek,
                   ENCRYPTION_ENABLED, dek_cache, clock>>

\* Lines 389-397: the generator takes a message from the queue and yields it.
SseStream ==
    /\ \E s \in DOMAIN streams :
          /\ streams[s].open /\ sessions[s] # <<>>
          /\ LET g == queue_get(sessions[s])
             IN /\ sessions' = [sessions EXCEPT ![s] = g.rest]
                /\ streams' = [streams EXCEPT ![s].events = Append(@, g.message)]
    /\ UNCHANGED <<db, tx, pc, req, history, last, encryption_service, active_dek,
                   ENCRYPTION_ENABLED, dek_cache, clock>>

\* Lines 402-406: the client goes away, the generator is cancelled and its
\* finally clause removes the session.
SseClose ==
    /\ \E s \in DOMAIN streams :
          /\ streams[s].open
          /\ sessions' = [t \in DOMAIN sessions \ {s} |-> sessions[t]]
          /\ streams' = [streams EXCEPT ![s].open = FALSE]
    /\ UNCHANGED <<db, tx, pc, req, history, last, encryption_service, active_dek,
                   ENCRYPTION_ENABLED, dek_cache, clock>>

PostAnswer(kind, session_id, body, st, response, queued) ==
    [ kind |-> kind, rid |-> last.rid + 1, session_id |-> session_id, body |-> body,
      status |-> st, response |-> response, queued |-> queued, ended_at |-> "idle" ]

\* handle_messages, lines 417-423: a post for a session id that is not in
\* sessions is answered 404; otherwise the handler awaits the body.
MessagesBegin(w, quota) ==
    /\ pc[w] = "idle"
    /\ Started < quota
    /\ \E session_id \in SessionIds, body \in Bodies \cup {InvalidJson} :
          IF session_id \notin DOMAIN sessions
          THEN /\ last' = PostAnswer("messages", session_id, body, 404, NoResponse, FALSE)
               /\ UNCHANGED <<pc, req, history>>
          ELSE /\ Enter(w, "posted", [ kind |-> "messages", rid |-> 0, interleaved |-> FALSE,
                                       session_id |-> session_id, body |-> body,
                                       status |-> 0, ended_at |-> None ])
               /\ UNCHANGED <<history, last>>
    /\ UNCHANGED <<db, tx, encryption_service, active_dek, ENCRYPTION_ENABLED,
                   dek_cache, clock, sessions, streams>>

\* Lines 425-438: the body is parsed (400 when it is not JSON), the request
\* is processed, and a response that is not None is put on the queue that
\* sessions holds for the id now; an exception is answered 500.
MessagesEnd(w) ==
    /\ pc[w] = "posted"
    /\ LET r == req[w]
           p == process_mcp_request(r.body)
           ans(st, response, queued) ==
               /\ last' = PostAnswer("messages", r.session_id, r.body, st, response, queued)
               /\ history' = history \cup {last'}
       IN IF r.body = InvalidJson
          THEN ans(400, NoResponse, FALSE) /\ sessions' = sessions
          ELSE IF p.raised
          THEN ans(500, NoResponse, FALSE) /\ sessions' = sessions
          ELSE IF p.response = NoResponse
          THEN ans(202, NoResponse, FALSE) /\ sessions' = sessions
          ELSE IF r.session_id \notin DOMAIN sessions
          THEN ans(500, p.response, FALSE) /\ sessions' = sessions
          ELSE /\ ans(202, p.response, TRUE)
               /\ sessions' = [sessions EXCEPT ![r.session_id] = Append(@, p.response)]
    /\ pc' = [pc EXCEPT ![w] = "idle"]
    /\ req' = [req EXCEPT ![w] = Idle]
    /\ UNCHANGED <<db, tx, encryption_service, active_dek, ENCRYPTION_ENABLED,
                   dek_cache, clock, streams>>

\* handle_mcp_post, lines 441-451: 204 when there is no response.
McpPost(quota) ==
    /\ Started < quota
    /\ \E body \in Bodies \cup {InvalidJson} :
          LET p == process_mcp_request(body)
          IN last' = IF body = InvalidJson
                     THEN PostAnswer("mcp", None, body, 400, NoResponse, FALSE)
                     ELSE IF p.raised
                     THEN PostAnswer("mcp", None, body, 500, NoResponse, FALSE)
                     ELSE IF p.response = NoResponse
                     THEN PostAnswer("mcp", None, body, 204, NoResponse, FALSE)
                     ELSE PostAnswer("mcp", None, body, 200, p.response, FALSE)
    /\ UNCHANGED <<db, tx, pc, req, history, encryption_service, active_dek,
                   ENCRYPTION_ENABLED, dek_cache, clock, sessions, streams>>

InitSse ==
    /\ ENCRYPTION_ENABLED = FALSE
    /\ db = InitDb(FALSE)
    /\ InitProcess

NextSse ==
    \/ SseConnect
    \/ SseStream
    \/ SseClose
    \/ \E w \in Workers : MessagesBegin(w, MaxSseReqs)
    \/ \E w \in Workers : MessagesEnd(w)
    \/ McpPost(MaxSseReqs)

SpecSse == InitSse /\ [][NextSse]_vars

-----------------------------------------------------------------------------
(* Properties of the commit/branch engine *)

Commits == {h \in history : h.kind = "commit"}
Branches == {h \in history : h.kind = "branch"}

\* The commits that the parent pointers lead to from hash h, h included.
RECURSIVE Chain(_, _, _)
Chain(d, h, fuel) ==
    IF fuel = 0 \/ h \notin DOMAIN d.commits THEN {}
    ELSE {h} \cup Chain(d, d.commits[h].parent_hash, fuel - 1)

Reachable(d, branch) ==
    IF branch \in DOMAIN d.branches
    THEN Chain(d, d.branches[branch].head_commit, Cardinality(DOMAIN d.commits))
    ELSE {}

\* C1: two Commits on the same existing branch that interleave and both
\* answer 201 do not record the same parent_hash, and both commits are
\* reachable from the branch's head once both have ended.
C1_NoLostCommit ==
    \A a, b \in Commits :
        (/\ a.rid # b.rid /\ a.branch = b.branch
         /\ a.interleaved /\ b.interleaved
         /\ a.branch_row /\ b.branch_row)
        => /\ a.parent_hash # b.parent_hash
           /\ {a.commit_hash, b.commit_hash} \subseteq Reachable(db, a.branch)

\* Worker w takes the step, and its request does not end with 201 in it.
Unfinished(w) ==
    /\ <<pc[w], req[w], tx[w]>> # <<pc[w], req[w], tx[w]>>'
    /\ ~(pc[w] = "db_commit" /\ last'.rid # last.rid /\ last'.status = 201)

\* C2: Commit is all or nothing.  No statement of a Commit changes the
\* committed rows, except the db.commit() of a Commit that answers 201: when
\* a Commit fails at any statement, none of its rows is in the store and
\* every branch head is what it was.
C2_AllOrNothing ==
    [][\A w \in Workers : req[w].kind = "commit" /\ Unfinished(w) => db' = db]_vars

\* A Commit failed with its blob, tree entry, commit, head and tag pending,
\* and the store holds no row of it.
C2_Witness ==
    /\ last.kind = "commit" /\ last.status = 500 /\ last.ended_at = "db_commit"
    /\ db.blobs = NoRows /\ db.commits = NoRows /\ db.tags = NoRows
    /\ \A b \in DOMAIN db.branches : db.branches[b].head_commit = GENESIS

\* C3: a Commit on an existing branch that answers 201 and that no other
\* Commit on the branch interleaved with leaves the head at its commit_hash,
\* and its commit's parent_hash is the head of before the call, NULL for
\* GENESIS.
C3_HeadAdvance ==
    (/\ last.kind = "commit" /\ last.status = 201
     /\ last.head0 # None /\ ~last.interleaved)
    => /\ last.branch \in DOMAIN db.branches
       /\ db.branches[last.branch].head_commit = last.commit_hash
       /\ last.commit_hash \in DOMAIN db.commits
       /\ db.commits[last.commit_hash].parent_hash =
              (IF last.head0 = GENESIS THEN None ELSE last.head0)

\* A second Commit on a branch: its parent is the first one's commit.
C3_Witness ==
    /\ last.kind = "commit" /\ last.status = 201 /\ ~last.interleaved
    /\ last.head0 \notin {None, GENESIS}
    /\ db.commits[last.commit_hash].parent_hash = last.head0

\* C4: blob_hash is a function of the canonical content string alone: calls
\* with the same content string answer the same blob_hash, whichever of the
\* two storage paths they take.
C4_BlobHashOfContent ==
    \A a, b \in Commits : a.content_str = b.content_str => a.blob_hash = b.blob_hash

\* The same content string, sent as a dict and as a string, committed on the
\* plaintext path and on the encrypted path.
C4_Witness ==
    \E a, b \in Commits :
        /\ a.content_str = b.content_str /\ a.content # b.content
        /\ a.encrypted /\ ~b.encrypted

\* C5: two Commits of the same content both succeed (the second is not
\* refused for the blob being there), with different commit_hash and the same
\* blob_hash, and the store holds one blob row per content committed.
C5_BlobReuse ==
    /\ \A a, b \in Commits :
          (a.rid # b.rid /\ a.content_str = b.content_str)
          => /\ a.commit_hash # b.commit_hash
             /\ a.blob_hash = b.blob_hash
             /\ a.blob_hash \in DOMAIN db.blobs
             /\ db.blobs[a.blob_hash].content = a.content_str
    /\ Cardinality(DOMAIN db.blobs) = Cardinality({a.content_str : a \in Commits})
    /\ ~(last.kind = "commit" /\ last.status = 500 /\ last.ended_at = "blob"
         /\ last.error = "IntegrityError")

\* The second Commit of a content found the blob stored.
C5_Witness ==
    \E a, b \in Commits :
        /\ a.rid < b.rid /\ a.content_str = b.content_str
        /\ a.branch = b.branch /\ b.blob_existed /\ ~a.blob_existed
        /\ Cardinality(DOMAIN db.blobs) = 1

\* C6: the head of every branch is GENESIS or the hash of a stored commit.
C6_HeadResolves ==
    \A b \in DOMAIN db.branches :
        \/ db.branches[b].head_commit = GENESIS
        \/ db.branches[b].head_commit \in DOMAIN db.commits

\* A branch created from a branch that has a commit.
C6_Witness ==
    /\ last.kind = "branch" /\ last.status = 201
    /\ db.branches[last.name].head_commit \in DOMAIN db.commits

\* C7: the parent_hash of every stored commit is NULL or the hash of a
\* stored commit, never GENESIS.
C7_ParentResolves ==
    \A c \in DOMAIN db.commits :
        /\ db.commits[c].parent_hash # GENESIS
        /\ \/ db.commits[c].parent_hash = None
           \/ db.commits[c].parent_hash \in DOMAIN db.commits

\* A first commit (parent NULL) and a second one on it.
C7_Witness ==
    \E c, p \in DOMAIN db.commits :
        db.commits[c].parent_hash = p /\ db.commits[p].parent_hash = None

-----------------------------------------------------------------------------
(* Properties of Log *)

\* The commits of a Log response are at most limit, the first is the branch's
\* head and each next one is the parent of the one before it.
NewestFirst(r) ==
    /\ Len(r.commits) <= r.limit
    /\ r.commits # <<>> =>
          r.commits[1].commit_hash = head_commit_of(db, r.branch)
    /\ \A i \in 1..(Len(r.commits) - 1) :
          r.commits[i + 1].commit_hash = r.commits[i].parent_hash

\* The step leaves the answer of every Log request as it was.
SameLogs ==
    \A branch \in BranchNames, limit \in 0..MaxLimit :
        get_log(db', branch, limit) = get_log(db, branch, limit)

\* The step ends a request of that kind with 201.
Done(kind) == last'.rid # last.rid /\ last'.kind = kind /\ last'.status = 201

\* C8 as stated: Log returns at most limit commits, newest first, and two Log
\* calls with the same arguments return the same sequence unless a Commit
\* succeeded in between.
C8_Original ==
    /\ [](last.kind = "log" => NewestFirst(last))
    /\ [][~Done("commit") => SameLogs]_vars

\* C8: Log returns at most limit commits, newest first, and two Log calls
\* with the same arguments return the same sequence unless a Commit or a
\* CreateBranch succeeded in between.
C8_LogIdempotent ==
    /\ [](last.kind = "log" => NewestFirst(last))
    /\ [][~(Done("commit") \/ Done("branch")) => SameLogs]_vars

\* Log answered with a head and its parent, after a request that left the
\* store as it was.
C8_Witness ==
    /\ last.kind = "log" /\ last.limit = 2 /\ Len(last.commits) = 2
    /\ last.rid = 3

\* The hash the walk of a Log response would have read next.
NextHash(r) ==
    IF r.commits = <<>> THEN head_commit_of(db, r.branch)
    ELSE r.commits[Len(r.commits)].parent_hash

\* C9: when the walk reaches a hash that has no commit row, Log answers 200
\* with the rows found before it, in order.
C9_BrokenChain ==
    last.kind = "log" =>
        /\ last.status = 200
        /\ NewestFirst(last)
        /\ \A i \in 1..Len(last.commits) :
              /\ last.commits[i].commit_hash \in DOMAIN db.commits
              /\ last.commits[i] = [commit_hash |-> last.commits[i].commit_hash]
                                       @@ db.commits[last.commits[i].commit_hash]
        /\ \/ Len(last.commits) = last.limit
           \/ NextHash(last) \in {None, GENESIS}
           \/ NextHash(last) \notin DOMAIN db.commits

\* Log found a commit whose parent has no row, with room left under limit.
C9_Witness ==
    /\ last.kind = "log" /\ last.status = 200
    /\ Len(last.commits) = 1 /\ last.limit = 2
    /\ NextHash(last) \notin DOMAIN db.commits \cup {None}

\* The commit hashes of the responses in S, the last one sent first.
RECURSIVE LatestFirst(_)
LatestFirst(S) ==
    IF S = {} THEN <<>>
    ELSE LET m == CHOOSE x \in S : \A y \in S : y.rid <= x.rid
         IN <<m.commit_hash>> \o LatestFirst(S \ {m})

\* The branch began at GENESIS: it is the default branch of the deployment,
\* or CreateBranch answered with head_commit GENESIS.
BornEmpty(branch) ==
    \/ branch = DEFAULT_BRANCH
    \/ \E h \in Branches : h.name = branch /\ h.head_commit = GENESIS

\* The Commits that found the branch and answered 201.
CommitsOn(branch) == {h \in Commits : h.branch = branch /\ h.branch_row}

\* C10: on a branch that began at GENESIS, after k >= 1 Commits served one
\* after another, Log with limit >= k returns those k commits, the last made
\* first, and the last one returned has parent_hash NULL.
C10_LogAfterCommits ==
    (/\ last.kind = "log" /\ BornEmpty(last.branch)
     /\ CommitsOn(last.branch) # {}
     /\ last.limit >= Cardinality(CommitsOn(last.branch)))
    => /\ [i \in 1..Len(last.commits) |-> last.commits[i].commit_hash]
              = LatestFirst(CommitsOn(last.branch))
       /\ last.commits[Len(last.commits)].parent_hash = None

\* Two Commits, then Log.
C10_Witness ==
    /\ last.kind = "log" /\ BornEmpty(last.branch)
    /\ Cardinality(CommitsOn(last.branch)) = 2 /\ last.limit = 2
    /\ Len(last.commits) = 2

-----------------------------------------------------------------------------
(* Properties of CreateBranch *)

\* Worker w's request of that kind ends in the step.
Ends(w, kind) == req[w].kind = kind /\ pc[w] # "idle" /\ pc'[w] = "idle"

\* The branch row CreateBranch(name, from) makes at time now on the store d.
NewBranch(d, from, now) ==
    [ head_commit |-> IF from \in DOMAIN d.branches
                      THEN d.branches[from].head_commit ELSE GENESIS,
      created_at |-> now ]

\* C11: CreateBranch(name, from) on a store that has a branch called name
\* answers AlreadyExists and changes nothing; on a store that has none it
\* adds one branch row called name, at the head of from or at GENESIS when
\* from has no row, and changes no other branch row and no other table.
\* (A request that the store fails ends with Unavailable and changes
\* nothing.)
C11_CreateBranch ==
    [][\A w \in Workers : Ends(w, "branch") =>
          LET r == req[w] IN
          IF r.name \in DOMAIN db.branches
          THEN /\ db' = db
               /\ last'.status # 201
               /\ last'.error \in {"AlreadyExists", "Unavailable"}
          ELSE IF last'.status = 201
               THEN /\ db' = [db EXCEPT !.branches =
                                 @ @@ (r.name :> NewBranch(db, r.from, r.now))]
                    /\ last'.head_commit = NewBranch(db, r.from, r.now).head_commit
               ELSE db' = db /\ last'.error = "Unavailable"]_vars

\* CreateBranch was refused for a name that is there, after a CreateBranch
\* from a branch that has a commit and from a name that has no row.
C11_Witness ==
    /\ last.kind = "branch" /\ last.status = 409 /\ last.error = "AlreadyExists"
    /\ \E a \in Branches : a.head_commit \notin {GENESIS, None}

\* C12: of the CreateBranch calls for one name at most one answers 201, and
\* one that loses to another is answered AlreadyExists (409), not with
\* another failure.
C12_UniqueBranchName ==
    /\ \A a, b \in Branches : a.name = b.name => a.rid = b.rid
    /\ ~(last.kind = "branch" /\ last.status # 201 /\ last.error = "IntegrityError")

-----------------------------------------------------------------------------
(* Frame properties *)

\* C13: the head of a branch that is there changes only in the step that
\* ends a Commit naming that branch with 201, and then to the hash of the
\* commit that call made; every other step of every handler (Commit on
\* another branch, Log, Recall, Checkout, CreateBranch, CreateLink,
\* ListLinks, Reflect) leaves it as it was.  No branch row is removed.
C13_HeadFrame ==
    [][\A b \in DOMAIN db.branches :
          /\ b \in DOMAIN db'.branches
          /\ db'.branches[b].head_commit # db.branches[b].head_commit
             => /\ last'.rid # last.rid
                /\ last'.kind = "commit" /\ last'.status = 201
                /\ last'.branch = b
                /\ db'.branches[b].head_commit = last'.commit_hash
                /\ last'.commit_hash \notin DOMAIN db.commits]_vars

\* A Commit moved the head of b1 and the default branch kept its head.
C13_Witness ==
    /\ last.kind = "commit" /\ last.status = 201 /\ last.branch = "b1"
    /\ "b1" \in DOMAIN db.branches
    /\ db.branches["b1"].head_commit = last.commit_hash
    /\ db.branches[DEFAULT_BRANCH].head_commit # last.commit_hash

\* C14: Checkout only reads.  The step that serves it leaves the store and
\* the state of the process (open transactions, handlers in progress, the
\* encryption globals, the DEK cache) as they were, so no later request can
\* tell whether it was made; it answers the head of the named branch, or
\* NotFound when the branch has no row.
C14_CheckoutPure ==
    [][(last'.rid # last.rid /\ last'.kind = "checkout") =>
          /\ UNCHANGED <<db, tx, pc, req, history, encryption_service, active_dek,
                         ENCRYPTION_ENABLED, sessions, streams, dek_cache, clock>>
          /\ last'.branch \in DOMAIN db.branches =>
                /\ last'.status = 200
                /\ last'.head_commit = db.branches[last'.branch].head_commit
          /\ (last'.branch # "" /\ last'.branch \notin DOMAIN db.branches) =>
                last'.status = 404 /\ last'.error = "NotFound"]_vars

\* Checkout answered the head of a branch that has a commit.
C14_Witness ==
    /\ last.kind = "checkout" /\ last.status = 200
    /\ last.head_commit \in DOMAIN db.commits

-----------------------------------------------------------------------------
(* Properties of Recall and of the encryption path *)

\* The Recall request names what Commit c returned: its blob_hash, or its
\* commit_hash and no blob hash.
Recalls(r, c) ==
    \/ r.blob_hash = c.blob_hash
    \/ r.blob_hash = None /\ r.commit_hash = c.commit_hash

\* C15: Recall by the blob_hash or by the commit_hash that a successful
\* Commit returned finds the memory, and when it answers it answers the
\* canonical content string of that Commit, whether the blob was stored
\* encrypted or in plaintext.
C15_RoundTrip ==
    last.kind = "recall" =>
        \A c \in Commits :
            Recalls(last, c) =>
                /\ last.status \in {200, 500}
                /\ last.status = 200 => last.content = c.content_str

\* Recall by commit_hash answered the content of a Commit that stored its
\* blob encrypted, from the ciphertext.
C15_Witness ==
    /\ last.kind = "recall" /\ last.status = 200 /\ last.decrypted
    /\ last.blob_hash = None
    /\ \E c \in Commits :
          /\ Recalls(last, c) /\ c.encrypted /\ ~c.blob_existed
          /\ c.content.isdict /\ last.content = c.content_str

\* C16: for a blob that has ciphertext and a key id, Recall answers a
\* payload only when it decrypted the ciphertext; when it cannot decrypt it
\* answers a failure.
C16_NoSilentFallback ==
    (last.kind = "recall" /\ last.status = 200 /\ last.encrypted) => last.decrypted

\* C17: with encryption enabled, a Commit served while the encryption
\* service is not there (its initialisation failed) does not answer 201, and
\* no Commit answers 201 having written a blob row without ciphertext while
\* encryption is enabled and the tenant has an active key.
C17_NoPlaintextFallback ==
    [][ (Ends(1, "commit") /\ last'.status = 201 /\ ENCRYPTION_ENABLED
           /\ get_active_dek # NoDek)
        => (encryption_service /\ (req[1].encrypted \/ req[1].blob_existed)) ]_vars

\* C18: a stored blob row that has ciphertext has a nonce and a key id and
\* holds the plaintext payload in no column: it has either plaintext content
\* or the encrypted triple, not both.
C18_CiphertextOnly ==
    \A h \in DOMAIN db.blobs :
        db.blobs[h].content_encrypted # None =>
            /\ db.blobs[h].nonce # None
            /\ db.blobs[h].encryption_key_id # None
            /\ db.blobs[h].content = None

-----------------------------------------------------------------------------
(* Properties of the DEK cache *)

\* C19: an unwrap_dek call for a key id made less than DEK_CACHE_TTL seconds
\* after the last call for which the KMS answered for that key id returns
\* the key of that call and does not call the KMS; made DEK_CACHE_TTL
\* seconds after it or later, it calls the KMS, and when the KMS answers the
\* entry holds the new answer with its age starting at the time of this call.
C19_CacheTtl ==
    [][ (last'.rid # last.rid /\ last'.kind = "unwrap"
           /\ last'.key_id \in DOMAIN last.populated)
        => LET k == last'.key_id
               p == last.populated[k]
           IN IF clock - p.at < DEK_CACHE_TTL
              THEN /\ ~last'.kms_called /\ ~last'.raised
                   /\ last'.dek = p.dek
                   /\ dek_cache' = dek_cache
              ELSE /\ last'.kms_called
                   /\ ~last'.raised =>
                         dek_cache'[k] = [dek |-> last'.dek, cached_at |-> clock] ]_vars

\* An unwrap_dek call answered from the cache 299 seconds after the KMS
\* answered for its key id.
C19_Witness ==
    /\ last.kind = "unwrap" /\ last.age = DEK_CACHE_TTL - 1
    /\ ~last.kms_called /\ last.dek # None

\* C20: an unwrap_dek or generate_dek call whose KMS call fails raises,
\* returns no key and leaves the DEK cache as it was; an entry past its TTL
\* is not answered in place of the failed unwrap.
C20_KmsFailure ==
    [][ (last'.rid # last.rid /\ last'.kind \in {"unwrap", "generate"}
           /\ last'.kms_called /\ ~last'.kms_ok)
        => /\ last'.raised
           /\ last'.dek = None
           /\ dek_cache' = dek_cache ]_vars

\* An unwrap_dek call failed at the KMS while the cache held an entry for its
\* key id that was DEK_CACHE_TTL seconds old or older.
C20_Witness ==
    /\ last.kind = "unwrap" /\ last.raised /\ last.dek = None
    /\ last.key_id \in DOMAIN dek_cache
    /\ last.at - dek_cache[last.key_id].cached_at >= DEK_CACHE_TTL

\* C21: of the unwrap_dek calls for one key id that are in progress at the
\* same time and found no valid cache entry, at most one has asked the KMS
\* to unwrap.
C21_SingleUnwrap ==
    \A v, w \in Workers :
        (v # w /\ pc[v] # "idle" /\ pc[w] # "idle" /\ req[v].key_id = req[w].key_id)
            => ~(req[v].kms_called /\ req[w].kms_called)

-----------------------------------------------------------------------------
(* Properties of the cipher and of the key backup *)

\* C22: decrypt of the ciphertext and nonce encrypt made, with the same DEK,
\* returns the plaintext; with another DEK, a changed nonce or a changed
\* ciphertext it raises and returns no plaintext.
C22_EncryptDecrypt ==
    last.kind = "decrypt" =>
        IF /\ last.used_dek = last.dek /\ last.used_nonce = last.nonce
           /\ last.used_ciphertext = last.ciphertext
        THEN ~last.raised /\ last.result = last.plaintext
        ELSE last.raised /\ last.result = None

\* A decrypt with the right key and nonce of a ciphertext with one byte
\* changed has raised.
C22_Witness ==
    /\ last.kind = "decrypt" /\ last.raised
    /\ last.used_dek = last.dek /\ last.used_nonce = last.nonce
    /\ last.used_ciphertext # last.ciphertext

\* C23: import_dek_backup of what export_dek_backup made, with the same
\* passphrase, returns the wrapped DEK; with another passphrase, or with a
\* byte of the salt, the nonce or the ciphertext changed, it raises and
\* returns no key.
C23_BackupRoundTrip ==
    last.kind = "import" =>
        IF last.used_passphrase = last.passphrase /\ last.used_backup_data = last.backup_data
        THEN ~last.raised /\ last.result = last.wrapped_dek
        ELSE last.raised /\ last.result = None

\* An import with the right passphrase of a backup whose salt has one byte
\* changed has raised.
C23_Witness ==
    /\ last.kind = "import" /\ last.raised
    /\ last.used_passphrase = last.passphrase
    /\ last.used_backup_data # last.backup_data
    /\ SubSeq(last.used_backup_data, 17, Len(last.backup_data))
         = SubSeq(last.backup_data, 17, Len(last.backup_data))

-----------------------------------------------------------------------------
(* Properties of the migration *)

\* C24: the tenant has at most one data_encryption_keys row with status
\* active, in every state reached by migration runs, interleaved or not.
C24_OneActiveDek ==
    Cardinality(active_keys(db.data_encryption_keys)) <= 1

\* The columns of a blob row other than the three encryption columns.
Payload(blob) ==
    [ content |-> blob.content, content_type |-> blob.content_type,
      created_at |-> blob.created_at, byte_size |-> blob.byte_size ]

\* Worker w runs a conn.commit() of a migration in this step.
MigrationCommits(w) ==
    /\ req[w].kind = "migration"
    /\ pc[w] \in {"mig_commit", "mig_update"}
    /\ pc'[w] # pc[w]

\* C25: a stored blob row stays stored under its blob_hash, and it changes
\* only in a commit of the migration, which changes nothing of it but
\* content_encrypted, nonce and encryption_key_id; no step of a Commit
\* changes a blob row that is there, whether its content is stored or not.
C25_BlobImmutable ==
    [][ \A h \in DOMAIN db.blobs :
          /\ h \in DOMAIN db'.blobs
          /\ Payload(db'.blobs[h]) = Payload(db.blobs[h])
          /\ db'.blobs[h] # db.blobs[h] => \E w \in Workers : MigrationCommits(w) ]_vars

\* A Commit of the content of a blob that was stored before and that the
\* migration has encrypted since answered 201 and found the row there.
C25_Witness ==
    /\ last.kind = "commit" /\ last.status = 201 /\ last.blob_existed
    /\ last.blob_hash \in DOMAIN db.blobs
    /\ db.blobs[last.blob_hash].created_at = "T0"
    /\ db.blobs[last.blob_hash].content_encrypted # None

-----------------------------------------------------------------------------
(* Properties of the links *)

\* Edge x has the source, the target and the type of edge y.
SameEdge(x, y) ==
    /\ x.source_blob = y.source_blob /\ x.target_blob = y.target_blob
    /\ x.link_type = y.link_type

\* C26: a CreateLink with valid fields is answered 409 Conflict exactly when
\* an edge with its source, target and type is stored (so an edge of another
\* type or of the other direction is no obstacle), a CreateLink that is not
\* answered 201 leaves the stored edges as they were, and no two stored
\* edges have the same source, target and type.
C26_LinkConflict ==
    [][ /\ (last'.rid # last.rid /\ last'.kind = "link") =>
             /\ last'.status # 400 =>
                   (last'.status = 409 <=>
                        \E x \in db.cross_references : SameEdge(x, last'.row))
             /\ last'.status # 201 => db'.cross_references = db.cross_references
             /\ last'.status = 201 =>
                   db'.cross_references = db.cross_references \cup {last'.row}
        /\ \A x, y \in db'.cross_references : SameEdge(x, y) => x = y ]_vars

\* A CreateLink was answered 409 and the edge it names is stored.
C26_Witness ==
    /\ last.kind = "link" /\ last.status = 409
    /\ \E x \in db.cross_references : SameEdge(x, last.row)

\* The edges of which blob h is the source or the target.
Incident(rows, h) == {x \in rows : x.source_blob = h \/ x.target_blob = h}

\* C27: Reflect(min_links, limit) answers the blobs that have at least
\* min_links incident edges, those with most edges first, at most limit of
\* them.
C27_Reflect ==
    last.kind = "reflect" =>
        /\ last.status = 200
        /\ LET hubs == {h \in DOMAIN db.blobs :
                          Cardinality(Incident(db.cross_references, h)) >= last.min_links}
               rows == last.highly_connected
           IN /\ {rows[i].blob_hash : i \in DOMAIN rows} \subseteq hubs
              /\ Len(rows) = IF last.limit < Cardinality(hubs)
                             THEN last.limit ELSE Cardinality(hubs)
              /\ \A i, j \in DOMAIN rows :
                    i < j => rows[i].link_count >= rows[j].link_count

-----------------------------------------------------------------------------
(* Properties of the tool handlers and of the task queue *)

\* C28: a boswell_links tool call that passes link_type is answered with
\* links of that type only.
C28_LinksByType ==
    (/\ last.kind = "tool" /\ last.name = "boswell_links" /\ last.status = 200
     /\ "link_type" \in DOMAIN last.arguments)
        => \A i \in DOMAIN last.body :
              last.body[i].link_type = last.arguments["link_type"]

\* Worker w's tool call name is answered in this step.
ToolAnswered(w, name) ==
    /\ pc[w] = "http" /\ req[w].name = name /\ pc'[w] = "idle"

ToolAnswers(name) == {h \in history : h.kind = "tool" /\ h.name = name}

-----------------------------------------------------------------------------
(* Properties settled on the whole engine, the key service and the SSE server *)

\* C31: a Commit that answers 201 leaves its branch in the store with the
\* returned commit_hash as head, and a Commit naming a branch that has no
\* row is not answered 201: it is refused and none of its rows is stored.
C31_CommitReferenced ==
    /\ []((last.kind = "commit" /\ last.status = 201)
            => /\ last.branch \in DOMAIN db.branches
               /\ db.branches[last.branch].head_commit = last.commit_hash)
    /\ [][\A w \in Workers :
            (/\ pc[w] # "idle" /\ pc'[w] = "idle" /\ req[w].kind = "commit"
             /\ req[w].branch \notin DOMAIN db.branches)
               => /\ \/ last'.status = 404 /\ last'.error = "NotFound"
                     \/ last'.status = 500
                  /\ db' = db
         ]_vars

\* recall_memory, line 493: 'encrypted': bool(blob.get('content_encrypted')).
recall_encrypted(d, blob_hash) == d.blobs[blob_hash].content_encrypted # None

\* C32 as claimed: after a Commit that answered 201 with encryption enabled,
\* the service available and an active key, a Recall of its blob_hash
\* reports encrypted, whether or not the blob was stored before.
C32_CommitEncrypts ==
    (last.kind = "commit" /\ last.status = 201 /\ last.encrypted)
        => recall_encrypted(db, last.blob_hash)

\* C32: after a Commit that answered 201 with encryption enabled, the
\* service available and an active key, and that found no blob stored under
\* its blob_hash, a Recall of the blob_hash reports encrypted and the blob
\* carries ciphertext, nonce and key id.
C32_NewBlobEncrypted ==
    (last.kind = "commit" /\ last.status = 201 /\ last.encrypted /\ ~last.blob_existed)
        => /\ last.blob_hash \in DOMAIN db.blobs
           /\ recall_encrypted(db, last.blob_hash)
           /\ has_ciphertext(db.blobs[last.blob_hash])

\* A Commit stored a new blob encrypted while a blob written before
\* encryption is in the store as well.
C32_Witness ==
    /\ last.kind = "commit" /\ last.status = 201 /\ last.encrypted /\ ~last.blob_existed
    /\ has_ciphertext(db.blobs[last.blob_hash])
    /\ compute_hash("memo") \in DOMAIN db.blobs

\* The row of a create_link request lacks one of the four required fields.
MissingField(row) ==
    \/ row.source_blob = "" \/ row.target_blob = ""
    \/ row.source_branch = "" \/ row.target_branch = ""

\* C33: every stored edge has one of the five link types and all four of
\* source_blob, target_blob, source_branch, target_branch; a CreateLink that
\* lacks one of the four or names another type is answered 400 Invalid and
\* leaves the edges as they were.
C33_ValidLink ==
    /\ [](\A x \in db.cross_references :
             /\ x.link_type \in {"resonance", "causal", "contradiction",
                                 "elaboration", "application"}
             /\ ~MissingField(x))
    /\ [][(last'.rid # last.rid /\ last'.kind = "link") =>
             ((\/ MissingField(last'.row)
               \/ last'.row.link_type \notin {"resonance", "causal", "contradiction",
                                              "elaboration", "application"})
                 => /\ last'.status = 400 /\ last'.error = "Invalid"
                    /\ db'.cross_references = db.cross_references)
         ]_vars

\* A CreateLink with a type that is not one of the five was answered 400
\* while an edge is stored.
C33_Witness ==
    /\ last.kind = "link" /\ last.status = 400
    /\ ~MissingField(last.row) /\ last.row.link_type = "similar"
    /\ db.cross_references # {}

\* No commit is met twice on the way from h along parent_hash.
RECURSIVE NoCycleFrom(_, _, _)
NoCycleFrom(commits, h, seen) ==
    IF h \in {None, GENESIS} \/ h \notin DOMAIN commits THEN TRUE
    ELSE IF h \in seen THEN FALSE
    ELSE NoCycleFrom(commits, commits[h].parent_hash, seen \cup {h})

\* C34: in every reachable state the parent pointers from every branch head
\* (and from every commit) form no cycle, and a Log, whatever its limit,
\* returns no commit twice and not more rows than there are commits.
C34_LogTerminates ==
    /\ \A b \in DOMAIN db.branches :
          NoCycleFrom(db.commits, db.branches[b].head_commit, {})
    /\ \A h \in DOMAIN db.commits : NoCycleFrom(db.commits, h, {})
    /\ last.kind = "log" =>
          /\ \A i, j \in DOMAIN last.commits :
                last.commits[i].commit_hash = last.commits[j].commit_hash => i = j
          /\ Len(last.commits) <= last.limit
          /\ Len(last.commits) <= Cardinality(DOMAIN db.commits)

\* A Log with a limit larger than the history returned the whole chain.
C34_Witness ==
    /\ last.kind = "log" /\ last.status = 200
    /\ Len(last.commits) >= 1 /\ last.limit > Len(last.commits)
    /\ last.commits[Len(last.commits)].parent_hash = None

-----------------------------------------------------------------------------
(* Properties of the MCP server over SSE *)

\* The responses that posts for session s have put on its queue, in the
\* order in which the posts were processed.
Enqueued(s) ==
    LET P == {h \in history : h.kind = "messages" /\ h.session_id = s /\ h.queued}
        q == CHOOSE f \in [1..Cardinality(P) -> P] :
                 \A i, j \in 1..Cardinality(P) : i < j => f[i].rid < f[j].rid
    IN [i \in 1..Cardinality(P) |-> q[i].response]

IsPrefix(a, b) == Len(a) <= Len(b) /\ a = SubSeq(b, 1, Len(a))

\* C37: the events streamed to the client of a session, followed by what is
\* on its queue, are the responses of the posts for that session in the
\* order in which they were processed (of a closed stream: the events are a
\* prefix of them); a post puts at most one response, which carries the
\* request's id, on the queue of its session and nothing on another queue;
\* a post for an id that is not registered is answered 404 and not
\* processed.
C37_SseInOrder ==
    /\ [](\A s \in DOMAIN streams :
             IF streams[s].open
             THEN streams[s].events \o sessions[s] = Enqueued(s)
             ELSE IsPrefix(streams[s].events, Enqueued(s)))
    /\ [][(last'.rid # last.rid /\ last'.kind = "messages") =>
            /\ \A t \in DOMAIN sessions \ {last'.session_id} :
                  t \in DOMAIN sessions' /\ sessions'[t] = sessions[t]
            /\ \/ sessions' = sessions
               \/ /\ last'.session_id \in DOMAIN sessions
                  /\ sessions'[last'.session_id] =
                        Append(sessions[last'.session_id], last'.response)
                  /\ last'.response.id = last'.body.id
            /\ last'.session_id \notin DOMAIN sessions =>
                  /\ sessions' = sessions
                  /\ pc' = pc => last'.status = 404 /\ history' = history
            /\ (pc' = pc /\ last'.session_id \in DOMAIN sessions) => FALSE
         ]_vars

\* Two responses were streamed to the client of one session.
C37_Witness ==
    \E s \in DOMAIN streams :
        /\ Len(streams[s].events) >= 2
        /\ streams[s].events[1].id # streams[s].events[2].id

\* C38: the registered session ids are those of the open streams, and a
\* post that has a response to deliver when its session has been removed is
\* answered 404; a response is queued only on the queue of an open stream.
C38_SessionLifetime ==
    /\ [](DOMAIN sessions = {s \in DOMAIN streams : streams[s].open})
    /\ [][\A w \in Workers :
            (pc[w] = "posted" /\ pc'[w] = "idle") =>
               /\ (req[w].session_id \notin DOMAIN sessions
                     /\ last'.response # NoResponse) => last'.status = 404
               /\ last'.queued => /\ req[w].session_id \in DOMAIN sessions'
                                  /\ streams'[req[w].session_id].open
         ]_vars

\* C39: a request with method initialize, tools/list, tools/call or ping is
\* answered with a result that carries its id; notifications/initialized
\* gets no response, nothing is queued for it and /mcp answers 204; every
\* other method is answered with error -32601 and the request's id.
C39_ProcessMcpRequest ==
    (/\ last.kind \in {"mcp", "messages"} /\ last.status # 404
     /\ last.body # InvalidJson)
        => IF last.body.method \in {"initialize", "tools/list", "tools/call", "ping"}
           THEN /\ last.response.jsonrpc = "2.0" /\ last.response.result # None
                /\ last.response.code = 0 /\ last.response.id = last.body.id
                /\ last.kind = "mcp" => last.status = 200
           ELSE IF last.body.method = "notifications/initialized"
           THEN /\ last.response = NoResponse /\ ~last.queued
                /\ last.kind = "mcp" => last.status = 204
                /\ last.kind = "messages" => last.status = 202
           ELSE /\ last.response.jsonrpc = "2.0" /\ last.response.result = None
                /\ last.response.code = -32601 /\ last.response.id = last.body.id

=============================================================================
